---- MODULE Spec2Model ----
(***************************************************************************)
(* A model of the search aggregation endpoint of dealscope                 *)
(* (src/app/api/search/route.ts): the GET handler with its two cache tiers *)
(* (the in-process Map "cache" and the Redis store), the timeout helper    *)
(* withTimeout and the two provider adapters fetchAmazon / fetchBestBuy.   *)
(*                                                                         *)
(* One action is one synchronous run of the handler between two awaits.    *)
(* Strings are sequences of one-character strings, so that toLowerCase,    *)
(* template literals and parseInt are computed rather than assumed.        *)
(* Numbers of a provider's JSON are integers in hundredths (1299 = 12.99). *)
(***************************************************************************)
EXTENDS Integers, Sequences, FiniteSets, TLC

\* ------------------------------------------------------------------ bounds
\* Requests that come in in one behaviour.
MaxReq == 2
\* Steps of the clock in one behaviour.
MaxTicks == 3
\* Length of the long Amazon result page (above the cap of 30).
LongPage == 31
\* Length of the longest page parameter.
MaxPageLen == 3

\* --------------------------------------------------------- program constants
CACHE_TTL_MS == 60000
REDIS_TTL_SECONDS == 60 * 10
TIMEOUT_MS == 4000
CAP == 30

\* The handler invocations that may be in flight at once.
Slots == {1, 2}

\* ------------------------------------------------------------------ strings
UpperChars == <<"A","B","C","D","E","F","G","H","I","J","K","L","M",
                "N","O","P","Q","R","S","T","U","V","W","X","Y","Z">>
LowerChars == <<"a","b","c","d","e","f","g","h","i","j","k","l","m",
                "n","o","p","q","r","s","t","u","v","w","x","y","z">>
DigitChars == <<"0","1","2","3","4","5","6","7","8","9">>

LowerChar(c) ==
  IF \E i \in 1..26 : UpperChars[i] = c
  THEN LowerChars[CHOOSE i \in 1..26 : UpperChars[i] = c]
  ELSE c

\* (the string as it is)
toLowerCase_AsIs(s) == s

\* String.prototype.toLowerCase
toLowerCase(s) == [i \in 1..Len(s) |-> LowerChar(s[i])]

IsDigit(c) == \E i \in 1..10 : DigitChars[i] = c
DigitVal(c) == (CHOOSE i \in 1..10 : DigitChars[i] = c) - 1

RECURSIVE NatToStr(_)
NatToStr(n) ==
  IF n < 10 THEN <<DigitChars[n + 1]>>
  ELSE NatToStr(n \div 10) \o <<DigitChars[(n % 10) + 1]>>

\* `${n}` of an integer-valued number
NumToStr(n) == IF n < 0 THEN <<"-">> \o NatToStr(0 - n) ELSE NatToStr(n)

\* A query-string parameter: searchParams.get(name) is a string or null.
Absent == [has |-> FALSE, val |-> <<>>]
Given(s) == [has |-> TRUE, val |-> s]

IsSpace(c) == c = " "

RECURSIVE SkipSpaces(_)
SkipSpaces(s) ==
  IF Len(s) > 0 /\ IsSpace(Head(s)) THEN SkipSpaces(Tail(s)) ELSE s

RECURSIVE DigitPrefix(_, _)
\* the value of the longest prefix of digits of s, after the digits in acc
DigitPrefix(s, acc) ==
  IF Len(s) > 0 /\ IsDigit(Head(s))
  THEN DigitPrefix(Tail(s), acc * 10 + DigitVal(Head(s)))
  ELSE acc

\* parseInt(s, 10): leading white space, an optional sign, then the longest
\* run of digits; NaN when there is no digit.
parseInt(s) ==
  LET t == SkipSpaces(s)
      neg == Len(t) > 0 /\ Head(t) = "-"
      signed == Len(t) > 0 /\ (Head(t) = "-" \/ Head(t) = "+")
      u == IF signed THEN Tail(t) ELSE t
  IN IF Len(u) > 0 /\ IsDigit(Head(u))
     THEN [nan |-> FALSE,
           val |-> IF neg THEN 0 - DigitPrefix(u, 0) ELSE DigitPrefix(u, 0)]
     ELSE [nan |-> TRUE, val |-> 0]

\* const page = pageParam ? parseInt(pageParam, 10) || 1 : 1;
PageOf(pageParam) ==
  IF pageParam.has /\ Len(pageParam.val) > 0
  THEN LET n == parseInt(pageParam.val)
       IN IF n.nan \/ n.val = 0 THEN 1 ELSE n.val
  ELSE 1

\* (searchParams.get("provider") || "amazon").toLowerCase()
ProviderOf(providerRaw) ==
  toLowerCase(IF providerRaw.has /\ Len(providerRaw.val) > 0
              THEN providerRaw.val
              ELSE <<"a","m","a","z","o","n">>)

AMAZON == <<"a","m","a","z","o","n">>
BESTBUY == <<"b","e","s","t","b","u","y">>
ALL == <<"a","l","l">>

\* (every scope but bestbuy taken as amazon)
UseAmazon_Default(provider) == provider # BESTBUY

UseAmazon(provider) == provider = AMAZON \/ provider = ALL
UseBestBuy(provider) == provider = BESTBUY \/ provider = ALL

Sep == <<":", ":">>
RedisPrefix == <<"d","e","a","l","s","c","o","p","e",":","s","e","a","r","c","h",
                 ":","v","1",":">>

makeCacheKey(q, page, provider) ==
  toLowerCase(q) \o Sep \o NumToStr(page) \o Sep \o provider

makeRedisKey(q, page, provider) ==
  RedisPrefix \o toLowerCase(q) \o Sep \o NumToStr(page) \o Sep \o provider

\* ------------------------------------------------------------- JSON values
\* A value of a provider's JSON: typeof, and the number or the string.
Num(n) == [t |-> "number", n |-> n, s |-> <<>>]
Str(s) == [t |-> "string", n |-> 0, s |-> s]
Undefined == [t |-> "undefined", n |-> 0, s |-> <<>>]
Null == [t |-> "null", n |-> 0, s |-> <<>>]

\* x ?? null
OrNull(x) == IF x.t = "undefined" \/ x.t = "null" THEN Null ELSE x

\* typeof x === "number" ? x : undefined
NumberOrUndefined(x) == IF x.t = "number" THEN x ELSE Undefined

TwoDigits(n) == <<DigitChars[(n \div 10) + 1], DigitChars[(n % 10) + 1]>>

\* `$${x.toFixed(2)}` of a number given in hundredths
DollarFixed2(n) ==
  IF n < 0
  THEN <<"$", "-">> \o NatToStr((0 - n) \div 100) \o <<".">> \o TwoDigits((0 - n) % 100)
  ELSE <<"$">> \o NatToStr(n \div 100) \o <<".">> \o TwoDigits(n % 100)

\* ------------------------------------------------------- provider adapters
\* (a failure that reports more pages)
EmptyOutcome_HasMore == [results |-> <<>>, hasMore |-> TRUE]

\* { results: [], hasMore: false }
EmptyOutcome == [results |-> <<>>, hasMore |-> FALSE]

\* (item) => ({source: "amazon", ...})
AmazonItem(item) ==
  [source |-> AMAZON,
   title |-> item.title,
   price |-> OrNull(item.priceRaw),
   link |-> item.link,
   thumbnail |-> OrNull(item.image),
   rating |-> NumberOrUndefined(item.rating),
   reviews |-> NumberOrUndefined(item.reviews)]

\* (the regular price looked at first)
BestBuyPrice_RegularFirst(p) ==
  IF p.regularPrice.t = "number" THEN Str(DollarFixed2(p.regularPrice.n))
  ELSE IF p.salePrice.t = "number" THEN Str(DollarFixed2(p.salePrice.n))
  ELSE Null

\* let price = null; if (typeof p.salePrice === "number") ... else if ...
BestBuyPrice(p) ==
  IF p.salePrice.t = "number" THEN Str(DollarFixed2(p.salePrice.n))
  ELSE IF p.regularPrice.t = "number" THEN Str(DollarFixed2(p.regularPrice.n))
  ELSE Null

BestBuyItem(p) ==
  [source |-> BESTBUY,
   title |-> p.name,
   price |-> BestBuyPrice(p),
   link |-> p.url,
   thumbnail |-> OrNull(p.image),
   rating |-> NumberOrUndefined(p.customerReviewAverage),
   reviews |-> NumberOrUndefined(p.customerReviewCount)]

\* (no fallback: without the two numbers there is no further page)
AmazonHasMore_NoFallback(reply, results) ==
  /\ reply.pag.has /\ reply.pag.cur.t = "number" /\ reply.pag.total.t = "number"
  /\ reply.pag.cur.n < reply.pag.total.n

\* Amazon: pagination metadata when both numbers are there, else the
\* "this page had results" fallback.
AmazonHasMore(reply, results) ==
  IF reply.pag.has /\ reply.pag.cur.t = "number" /\ reply.pag.total.t = "number"
  THEN reply.pag.cur.n < reply.pag.total.n
  ELSE Len(results) > 0

\* Best Buy: totalPages decides; currentPage falls back to the requested page.
BestBuyHasMore(reply, results, page) ==
  LET currentPage == IF reply.pag.cur.t = "number" THEN reply.pag.cur.n ELSE page * 100
  IN IF reply.pag.total.t = "number"
     THEN currentPage < reply.pag.total.n
     ELSE Len(results) > 0

\* What the rows of a reply are: json.search_results ?? [] (json.products ?? []).
\* Mapping over a value that is no array throws inside the adapter's try.
RowsThrow(reply) == reply.rows.t = "other"
Rows(reply) == IF reply.rows.t = "array" THEN reply.rows.arr ELSE <<>>

\* (search_results that is no array taken for no rows, outside the try)
AmazonOutcome_ShapeIgnored(reply, page) ==
  IF reply.kind = "neterr" THEN EmptyOutcome
  ELSE IF reply.status < 200 \/ reply.status > 299 THEN EmptyOutcome
  ELSE IF reply.kind = "badjson" THEN EmptyOutcome
  ELSE LET results == [i \in 1..Len(Rows(reply)) |-> AmazonItem(Rows(reply)[i])]
       IN [results |-> results, hasMore |-> AmazonHasMore(reply, results)]

\* The body of fetchAmazon after the credential check: the outcome it
\* resolves to for a reply of the provider.
AmazonOutcome(reply, page) ==
  IF reply.kind = "neterr" THEN EmptyOutcome
  ELSE IF reply.status < 200 \/ reply.status > 299 THEN EmptyOutcome
  ELSE IF reply.kind = "badjson" THEN EmptyOutcome
  ELSE IF RowsThrow(reply) THEN EmptyOutcome
  ELSE LET results == [i \in 1..Len(Rows(reply)) |-> AmazonItem(Rows(reply)[i])]
       IN [results |-> results, hasMore |-> AmazonHasMore(reply, results)]

\* The body of fetchBestBuy after the credential check.
BestBuyOutcome(reply, page) ==
  IF reply.kind = "neterr" THEN EmptyOutcome
  ELSE IF reply.status < 200 \/ reply.status > 299 THEN EmptyOutcome
  ELSE IF reply.kind = "badjson" THEN EmptyOutcome
  ELSE IF RowsThrow(reply) THEN EmptyOutcome
  ELSE LET results == [i \in 1..Len(Rows(reply)) |-> BestBuyItem(Rows(reply)[i])]
       IN [results |-> results, hasMore |-> BestBuyHasMore(reply, results, page)]

AdapterOutcome(prov, reply, page) ==
  IF prov = AMAZON THEN AmazonOutcome(reply, page) ELSE BestBuyOutcome(reply, page)

\* ------------------------------------------------ the providers' replies
\* The replies the two provider APIs are taken to give (the environment).
RawAmazonItem(i) ==
  [title |-> <<"A">> \o NumToStr(i),
   priceRaw |-> IF i % 3 = 0 THEN Undefined ELSE Str(DollarFixed2(i * 100 + 99)),
   link |-> <<"a", "/">> \o NumToStr(i),
   image |-> IF i % 2 = 0 THEN Undefined ELSE Str(<<"i", "/">> \o NumToStr(i)),
   rating |-> IF i % 2 = 0 THEN Num(450) ELSE Str(<<"4", ".", "5">>),
   reviews |-> IF i % 2 = 0 THEN Num(1200) ELSE Undefined]

RawBestBuyItem(i) ==
  [name |-> <<"B">> \o NumToStr(i),
   salePrice |-> IF i % 2 = 0 THEN Num(i * 100 + 50) ELSE Undefined,
   regularPrice |-> IF i % 3 = 0 THEN Undefined ELSE Num(i * 100 + 75),
   url |-> <<"b", "/">> \o NumToStr(i),
   image |-> Str(<<"i", "/">> \o NumToStr(i)),
   customerReviewAverage |-> Num(400),
   customerReviewCount |-> IF i % 2 = 0 THEN Str(<<"7">>) ELSE Num(700)]

NoPag == [has |-> FALSE, cur |-> Undefined, total |-> Undefined]
Pag(c, t) == [has |-> TRUE, cur |-> Num(c * 100), total |-> Num(t * 100)]
NoRows == [t |-> "absent", arr |-> <<>>]
Array(a) == [t |-> "array", arr |-> a]

NetErr == [kind |-> "neterr", status |-> 0, rows |-> NoRows, pag |-> NoPag]
Http(st) == [kind |-> "http", status |-> st, rows |-> NoRows, pag |-> NoPag]
Json(rows, pag) == [kind |-> "json", status |-> 200, rows |-> rows, pag |-> pag]

AmazonReplies ==
  { Http(503),
    Json(Array([i \in 1..2 |-> RawAmazonItem(i)]), NoPag),
    Json(Array([i \in 1..LongPage |-> RawAmazonItem(i)]), Pag(2, 2)) }

BestBuyReplies ==
  { NetErr,
    Json(Array(<<>>), Pag(1, 0)),
    Json(Array([i \in 1..3 |-> RawBestBuyItem(i)]), Pag(1, 4)) }

Replies(prov) == IF prov = AMAZON THEN AmazonReplies ELSE BestBuyReplies

\* ---------------------------------------------------------------- state
VARIABLES
  env,      \* which credentials the process was started with
  now,      \* Date.now(), in ms since the process started
  ticks,    \* how often the clock has advanced
  cache,    \* the L1 Map: cache key -> CacheEntry
  redis,    \* the L2 store: redis key -> value and the instant it expires
  req,      \* the handler invocations, one per slot
  search,   \* the search the callers of this behaviour make
  issued,   \* how many requests have come in
  last      \* not in the code: cache key -> the answer of the request that
            \* wrote L1 under it, once that request is answered

vars == <<env, now, ticks, cache, redis, req, search, issued, last>>

\* ------------------------------------------------------------- responses
NoResponse ==
  [status |-> 0, error |-> "", results |-> <<>>, hasMore |-> FALSE,
   cached |-> FALSE, cacheLayer |-> ""]

\* NextResponse.json({ error }, { status })
ErrorResponse(status, error) ==
  [status |-> status, error |-> error, results |-> <<>>, hasMore |-> FALSE,
   cached |-> FALSE, cacheLayer |-> ""]

\* NextResponse.json({ ...data, cached, cacheLayer })
JsonResponse(data, cached, cacheLayer) ==
  [status |-> 200, error |-> "", results |-> data.results,
   hasMore |-> data.hasMore, cached |-> cached, cacheLayer |-> cacheLayer]

\* (an L1 hit reported as not cached)
L1HitResponse_NotCached(data) == JsonResponse(data, FALSE, "L1")

L1HitResponse(data) == JsonResponse(data, TRUE, "L1")
L2HitResponse(data) == JsonResponse(data, TRUE, "REDIS")
LiveResponse(data) == JsonResponse(data, FALSE, "LIVE")

\* (no try around redis.set: the throw reaches the handler's catch block)
OnRedisWriteError_Uncaught(payload) == ErrorResponse(500, "Search failed")

\* catch (err) { console.error("Redis write error:", err); } and line 271
OnRedisWriteError(payload) == LiveResponse(payload)

\* ------------------------------------------------------------ validation
\* (a check for null alone)
MissingQ_NullOnly(q) == ~q.has

\* if (!q): null and the empty string are falsy, any other string is not
MissingQ(q) == ~q.has \/ Len(q.val) = 0

\* (the second negation left out)
NotConfigured_OneBang(e) == ~e.RAINFOREST_API_KEY /\ e.BESTBUY_API_KEY

\* if (!RAINFOREST_API_KEY && !BESTBUY_API_KEY)
NotConfigured(e) == ~e.RAINFOREST_API_KEY /\ ~e.BESTBUY_API_KEY

\* (the adapters go on without their credential)
HasKey_Always(e, prov) == TRUE

\* if (!RAINFOREST_API_KEY) return ... in fetchAmazon, if (!BESTBUY_API_KEY)
\* return ... in fetchBestBuy
HasKey(e, prov) ==
  IF prov = AMAZON THEN e.RAINFOREST_API_KEY ELSE e.BESTBUY_API_KEY

\* ------------------------------------------------------------ the caches
\* (an entry still served at the instant it expires)
L1Fresh_Inclusive(c, key, t) == key \in DOMAIN c /\ c[key].expires >= t

\* cached && cached.expires > Date.now()
L1Fresh(c, key, t) == key \in DOMAIN c /\ c[key].expires > t

\* (the lifetime left out of the expiry)
CacheEntry_NoTtl(data, t, by) ==
  [expires |-> t, data |-> data, by |-> by, at |-> t, born |-> t]

\* { expires: Date.now() + CACHE_TTL_MS, data }
\* ("by", "at" and "born" are not in the code: the request that wrote the
\* entry, when it did, and when a live fetch produced the payload)
CacheEntry(data, t, by) ==
  [expires |-> t + CACHE_TTL_MS, data |-> data, by |-> by, at |-> t, born |-> t]

MapSet(m, key, val) ==
  [k \in DOMAIN m \cup {key} |-> IF k = key THEN val ELSE m[k]]

\* (an L2 hit that leaves L1 as it is)
L1Refresh_Skipped(c, key, data, t, by) == c

\* cache.set(cacheKey, ...) on an L2 hit (lines 209-212)
L1Refresh(c, key, data, t, by) == MapSet(c, key, CacheEntry(data, t, by))

\* (an entry that is there is left as it is)
L1Save_IfAbsent(c, key, data, t, by) ==
  IF key \in DOMAIN c THEN c ELSE MapSet(c, key, CacheEntry(data, t, by))

\* cache.set(cacheKey, ...) after a live fetch (lines 257-260)
L1Save(c, key, data, t, by) == MapSet(c, key, CacheEntry(data, t, by))

\* What redis.get finds: the store drops a key when its TTL has run out.
RedisHas(store, key, t) == key \in DOMAIN store /\ store[key].expiresAt > t

\* (the lifetime given in the wrong unit)
RedisEntry_LongLived(payload, t) ==
  [value |-> payload, expiresAt |-> t + REDIS_TTL_SECONDS * 1000 * 1000, born |-> t]

\* redis.set(redisKey, payload, { ex: REDIS_TTL_SECONDS })
\* ("born" is not in the code: when a live fetch produced the payload)
RedisEntry(payload, t) ==
  [value |-> payload, expiresAt |-> t + REDIS_TTL_SECONDS * 1000, born |-> t]

\* Not in the code: the entry under key, when there is one, holds a payload
\* that a live fetch produced at time b.
Reborn(c, key, b) ==
  IF key \in DOMAIN c THEN [c EXCEPT ![key].born = b] ELSE c

\* (empty payloads stored as well)
HasResults_Always(payload) == TRUE

\* if (payload.results.length > 0): only then is redis.set called
HasResults(payload) == Len(payload.results) > 0

\* --------------------------------------------------------------- merging
\* (no cap)
Capped_Uncapped(results) == results

\* allResults.slice(0, 30)
Capped(results) == SubSeq(results, 1, IF Len(results) < CAP THEN Len(results) ELSE CAP)

RECURSIVE FlatResults(_)
\* providerResults.flatMap((p) => p.results)
FlatResults(outcomes) ==
  IF Len(outcomes) = 0 THEN <<>>
  ELSE Head(outcomes).results \o FlatResults(Tail(outcomes))

\* providerResults.some((p) => p.hasMore)
SomeHasMore(outcomes) == \E i \in 1..Len(outcomes) : outcomes[i].hasMore

\* (the values in the order in which the promises settled)
AwaitedValues_AsSettled(rec) ==
  IF Len(rec.settleOrder) = Len(rec.calls)
  THEN [i \in 1..Len(rec.calls) |-> rec.calls[rec.settleOrder[i]].value]
  ELSE [i \in 1..Len(rec.calls) |-> rec.calls[i].value]

\* The values await Promise.all(providerPromises) hands over for request rec:
\* those of the promises in the order they were pushed.
AwaitedValues(rec) == [i \in 1..Len(rec.calls) |-> rec.calls[i].value]

\* (hasMore taken from the outcomes that still have a row after the cap)
Merge_HasMoreOfKept(rec) ==
  LET kept == Capped(FlatResults(AwaitedValues(rec)))
  IN [results |-> kept,
      hasMore |-> \E i \in 1..Len(rec.calls) :
                    /\ rec.calls[i].value.hasMore
                    /\ \E j \in 1..Len(kept) : kept[j].source = rec.calls[i].prov]

\* const payload = { results: allResults, hasMore }
Merge(rec) ==
  [results |-> Capped(FlatResults(AwaitedValues(rec))),
   hasMore |-> SomeHasMore(AwaitedValues(rec))]

\* ---------------------------------------------------- the provider calls
NoReply == [kind |-> "none", status |-> 0, rows |-> NoRows, pag |-> NoPag]

\* (the adapter called without withTimeout: no timer that could fire)
Call_NoTimer(prov, e, t) ==
  IF HasKey(e, prov)
  THEN [prov |-> prov, sent |-> TRUE, adapter |-> "pending", guard |-> "pending",
        value |-> EmptyOutcome, deadline |-> t + 1000 * CACHE_TTL_MS, reply |-> NoReply,
        late |-> FALSE]
  ELSE [prov |-> prov, sent |-> FALSE, adapter |-> "settled", guard |-> "resolved",
        value |-> EmptyOutcome, deadline |-> t + 1000 * CACHE_TTL_MS, reply |-> NoReply,
        late |-> FALSE]

\* withTimeout(fetchX(q, page), 4000).catch(...) at the moment it is pushed.
\* An adapter without its credential has returned the empty outcome already
\* and has sent nothing.
Call(prov, e, t) ==
  IF HasKey(e, prov)
  THEN [prov |-> prov, sent |-> TRUE, adapter |-> "pending", guard |-> "pending",
        value |-> EmptyOutcome, deadline |-> t + TIMEOUT_MS, reply |-> NoReply,
        late |-> FALSE]
  ELSE [prov |-> prov, sent |-> FALSE, adapter |-> "settled", guard |-> "resolved",
        value |-> EmptyOutcome, deadline |-> t + TIMEOUT_MS, reply |-> NoReply,
        late |-> FALSE]

\* (both adapters called whatever the scope)
ProviderPromises_Both(provider, e, t) == <<Call(AMAZON, e, t), Call(BESTBUY, e, t)>>

\* providerPromises, in the order of the two pushes
ProviderPromises(provider, e, t) ==
  (IF UseAmazon(provider) THEN <<Call(AMAZON, e, t)>> ELSE <<>>)
  \o (IF UseBestBuy(provider) THEN <<Call(BESTBUY, e, t)>> ELSE <<>>)

\* (no .catch on the guarded call: the rejection reaches Promise.all)
OnGuardRejected_Uncaught(call) == [call EXCEPT !.guard = "rejected"]

\* .catch((err) => { ...; return { results: [], hasMore: false }; }) on the
\* guarded call: a rejection (the timeout) becomes the empty outcome.
OnGuardRejected(call) == [call EXCEPT !.guard = "timeout", !.value = EmptyOutcome]

\* ------------------------------------------------------ the environment
\* What callers send: in one behaviour they ask for one page of one search,
\* under any provider scope, or leave the search term out.
Searches ==
  { [q |-> Given(<<"t", "v">>), pageParam |-> Absent],
    [q |-> Given(<<" ">>), pageParam |-> Given(<<"2">>)] }
Queries == { Absent, Given(<<>>) } \cup { s.q : s \in Searches }
ProviderParams == { Absent, Given(BESTBUY), Given(ALL), Given(<<"e", "b", "a", "y">>) }

\* The term is the search of this behaviour, in some spelling.
SameSearch(term, s) ==
  /\ Len(term) = Len(s)
  /\ \A i \in 1..Len(s) : LowerChar(term[i]) = LowerChar(s[i])

\* How far the clock moves at its k-th step: first up to a provider deadline,
\* then to the end of an L1 lifetime, then to the end of an L2 lifetime, and
\* from there by one L1 lifetime at a time.
TickDelta(k) ==
  CASE k = 1 -> TIMEOUT_MS
    [] k = 2 -> CACHE_TTL_MS - TIMEOUT_MS
    [] k = 3 -> REDIS_TTL_SECONDS * 1000 - CACHE_TTL_MS
    [] OTHER -> CACHE_TTL_MS

\* An entry another instance of this program left in the shared store: the
\* merge of a two-row Amazon page and a three-row Best Buy page.
SeedKey == makeRedisKey(<<"t", "v">>, 1, ALL)
SeedPayload ==
  [results |->
     [i \in 1..2 |-> AmazonItem(RawAmazonItem(i))]
     \o [i \in 1..3 |-> BestBuyItem(RawBestBuyItem(i))],
   hasMore |-> TRUE]

EmptyMap == [k \in {} |-> 0]

\* --------------------------------------------------------- the requests
\* One invocation of GET: its parameters, where it is, what it has awaited,
\* and (not in the code) a record of what it did.
IdleRequest ==
  [pc |-> "idle", id |-> 0,
   q |-> Absent, pageParam |-> Absent, providerParam |-> Absent,
   calls |-> <<>>,
   payload |-> EmptyOutcome,
   resp |-> NoResponse,
   \* the record
   path |-> "",            \* the return statement that answered
   repeatOf |-> NoResponse, \* see RepeatOf
   l1Lookups |-> 0, l1Writes |-> 0, l2Reads |-> 0, l2Writes |-> 0,
   l2ReadThrew |-> FALSE, l2WriteThrew |-> FALSE,
   expiredSeen |-> FALSE,  \* the L1 lookup found an entry that had expired
   settleOrder |-> <<>>]

Page(r) == PageOf(req[r].pageParam)
Provider(r) == ProviderOf(req[r].providerParam)
CacheKey(r) == makeCacheKey(req[r].q.val, Page(r), Provider(r))
RedisKey(r) == makeRedisKey(req[r].q.val, Page(r), Provider(r))

Done(r) == req[r].pc = "done"
Free(r) == req[r].pc \in {"idle", "done"}

\* Not in the code: the answer a new request for `key` repeats, if any. That
\* is the answer of the request that made the last write of L1 under the key,
\* when it has been given and the write is less than the L1 lifetime ago.
RepeatOf(key) ==
  IF /\ key \in DOMAIN cache
     /\ key \in DOMAIN last
     /\ last[key].by = cache[key].by
     /\ now - cache[key].at < CACHE_TTL_MS
  THEN last[key].resp
  ELSE NoResponse

\* Not in the code: request r, which wrote L1, is answered with resp.
Answered(r, resp) ==
  IF CacheKey(r) \in DOMAIN cache' /\ cache'[CacheKey(r)].by = req[r].id
  THEN MapSet(last, CacheKey(r),
              [by |-> req[r].id, q |-> req[r].q.val, page |-> Page(r),
               provider |-> Provider(r), resp |-> resp])
  ELSE last

Init ==
  /\ env \in [RAINFOREST_API_KEY : BOOLEAN, BESTBUY_API_KEY : BOOLEAN]
  /\ now = 0
  /\ ticks = 0
  /\ cache = EmptyMap
  /\ redis \in { EmptyMap } \cup
                { MapSet(EmptyMap, SeedKey, RedisEntry(SeedPayload, 0)) :
                    x \in { e \in {env} : e.RAINFOREST_API_KEY /\ e.BESTBUY_API_KEY } }
  /\ req = [r \in Slots |-> IdleRequest]
  /\ search \in Searches
  /\ issued = 0
  /\ last = EmptyMap

\* (the check of the credentials moved before the check of q)
Request_KeysFirst(r, q, providerParam) ==
  /\ issued < MaxReq
  /\ Free(r)
  /\ \A p \in Slots : p < r => ~Free(p)
  /\ q.has /\ Len(q.val) > 0 => SameSearch(q.val, search.q.val)
  /\ issued' = issued + 1
  /\ LET pageParam == search.pageParam
         page == PageOf(pageParam)
         provider == ProviderOf(providerParam)
         cacheKey == makeCacheKey(q.val, page, provider)
         base == [IdleRequest EXCEPT !.id = issued + 1, !.q = q,
                                     !.pageParam = pageParam,
                                     !.providerParam = providerParam]
     IN req' = [req EXCEPT ![r] =
          IF NotConfigured(env)
          THEN [base EXCEPT !.pc = "done", !.path = "500",
                            !.resp = ErrorResponse(500,
                               "Server is not configured with any provider API keys")]
          ELSE IF MissingQ(q)
          THEN [base EXCEPT !.pc = "done", !.path = "400",
                            !.resp = ErrorResponse(400, "Missing search term")]
          ELSE IF L1Fresh(cache, cacheKey, now)
          THEN [base EXCEPT !.pc = "done", !.path = "L1", !.l1Lookups = 1,
                            !.repeatOf = RepeatOf(cacheKey),
                            !.resp = L1HitResponse(cache[cacheKey].data)]
          ELSE [base EXCEPT !.pc = "l2read", !.l1Lookups = 1, !.l2Reads = 1,
                            !.expiredSeen = (cacheKey \in DOMAIN cache),
                            !.repeatOf = RepeatOf(cacheKey)]]
  /\ UNCHANGED <<env, now, ticks, cache, redis, search, last>>

\* GET, up to its first await (lines 169-204): validation, the L1 lookup,
\* and on a miss the call of redis.get. It runs in the lowest free slot.
Request(r, q, providerParam) ==
  /\ issued < MaxReq
  /\ Free(r)
  /\ \A p \in Slots : p < r => ~Free(p)
  /\ q.has /\ Len(q.val) > 0 => SameSearch(q.val, search.q.val)
  /\ issued' = issued + 1
  /\ LET pageParam == search.pageParam
         page == PageOf(pageParam)
         provider == ProviderOf(providerParam)
         cacheKey == makeCacheKey(q.val, page, provider)
         base == [IdleRequest EXCEPT !.id = issued + 1, !.q = q,
                                     !.pageParam = pageParam,
                                     !.providerParam = providerParam]
     IN req' = [req EXCEPT ![r] =
          IF MissingQ(q)
          THEN [base EXCEPT !.pc = "done", !.path = "400",
                            !.resp = ErrorResponse(400, "Missing search term")]
          ELSE IF NotConfigured(env)
          THEN [base EXCEPT !.pc = "done", !.path = "500",
                            !.resp = ErrorResponse(500,
                               "Server is not configured with any provider API keys")]
          ELSE IF L1Fresh(cache, cacheKey, now)
          THEN [base EXCEPT !.pc = "done", !.path = "L1", !.l1Lookups = 1,
                            !.repeatOf = RepeatOf(cacheKey),
                            !.resp = L1HitResponse(cache[cacheKey].data)]
          ELSE [base EXCEPT !.pc = "l2read", !.l1Lookups = 1, !.l2Reads = 1,
                            !.expiredSeen = (cacheKey \in DOMAIN cache),
                            !.repeatOf = RepeatOf(cacheKey)]]
  /\ UNCHANGED <<env, now, ticks, cache, redis, search, last>>

\* (the hit also writes the entry back, with a new lifetime)
L2Hit_Renews(r) ==
  /\ req[r].pc = "l2read"
  /\ RedisHas(redis, RedisKey(r), now)
  /\ LET redisCached == redis[RedisKey(r)].value
     IN /\ cache' = Reborn(L1Refresh(cache, CacheKey(r), redisCached, now, req[r].id),
                           CacheKey(r), redis[RedisKey(r)].born)
        /\ redis' = [redis EXCEPT ![RedisKey(r)].expiresAt =
                                     now + REDIS_TTL_SECONDS * 1000]
        /\ req' = [req EXCEPT ![r].pc = "done", ![r].path = "L2",
                              ![r].l1Writes = 1,
                              ![r].resp = L2HitResponse(redisCached)]
        /\ last' = Answered(r, L2HitResponse(redisCached))
  /\ UNCHANGED <<env, now, ticks, search, issued>>

\* redis.get resolves with an entry (lines 207-219): L1 is refreshed and the
\* entry is the answer.
L2Hit(r) ==
  /\ req[r].pc = "l2read"
  /\ RedisHas(redis, RedisKey(r), now)
  /\ LET redisCached == redis[RedisKey(r)].value
     IN /\ cache' = Reborn(L1Refresh(cache, CacheKey(r), redisCached, now, req[r].id),
                           CacheKey(r), redis[RedisKey(r)].born)
        /\ req' = [req EXCEPT ![r].pc = "done", ![r].path = "L2",
                              ![r].l1Writes = 1,
                              ![r].resp = L2HitResponse(redisCached)]
        /\ last' = Answered(r, L2HitResponse(redisCached))
  /\ UNCHANGED <<env, now, ticks, redis, search, issued>>

\* Lines 226-247: the provider calls are pushed, each under its own timer,
\* and awaited together.
StartFetch(r) ==
  [req[r] EXCEPT !.pc = "fetching",
                 !.calls = ProviderPromises(Provider(r), env, now)]

\* (cache.set moved under the test for results)
AfterAwaitAll_SavesNonEmptyOnly(r, rec) ==
  LET payload == Merge(rec)
  IN IF HasResults(payload)
     THEN /\ cache' = L1Save(cache, CacheKey(r), payload, now, req[r].id)
          /\ req' = [req EXCEPT ![r] =
                [rec EXCEPT !.pc = "l2write", !.payload = payload,
                            !.l1Writes = 1, !.l2Writes = 1]]
          /\ UNCHANGED last
     ELSE /\ req' = [req EXCEPT ![r] =
                [rec EXCEPT !.pc = "done", !.path = "LIVE",
                            !.payload = payload,
                            !.resp = LiveResponse(payload)]]
          /\ UNCHANGED <<cache, last>>

\* The handler after await Promise.all (lines 247-271), which runs as soon as
\* the last of the promises has settled: merge, cap, save to L1 and, when
\* there are results, call redis.set; without results the answer goes out at
\* once. A rejected promise would take the handler to its catch block (272-275).
AfterAwaitAll(r, rec) ==
  LET payload == Merge(rec)
  IN IF \E i \in 1..Len(rec.calls) : rec.calls[i].guard = "rejected"
     THEN /\ req' = [req EXCEPT ![r] =
                 [rec EXCEPT !.pc = "done", !.path = "failed",
                             !.resp = ErrorResponse(500, "Search failed")]]
          /\ UNCHANGED <<cache, last>>
     ELSE /\ cache' = L1Save(cache, CacheKey(r), payload, now, req[r].id)
          /\ IF HasResults(payload)
             THEN /\ req' = [req EXCEPT ![r] =
                        [rec EXCEPT !.pc = "l2write", !.payload = payload,
                                    !.l1Writes = 1, !.l2Writes = 1]]
                  /\ UNCHANGED last
             ELSE /\ req' = [req EXCEPT ![r] =
                        [rec EXCEPT !.pc = "done", !.path = "LIVE",
                                    !.payload = payload, !.l1Writes = 1,
                                    !.resp = LiveResponse(payload)]]
                  /\ last' = Answered(r, LiveResponse(payload))

\* (going on as soon as one of the promises has settled)
AwaitAll_Any(r, rec) ==
  IF \E i \in 1..Len(rec.calls) : rec.calls[i].guard # "pending"
  THEN AfterAwaitAll(r, rec)
  ELSE /\ req' = [req EXCEPT ![r] = rec]
       /\ UNCHANGED <<cache, last>>

\* await Promise.all(providerPromises) with the request as it is in rec.
AwaitAll(r, rec) ==
  IF \A i \in 1..Len(rec.calls) : rec.calls[i].guard # "pending"
  THEN AfterAwaitAll(r, rec)
  ELSE /\ req' = [req EXCEPT ![r] = rec]
       /\ UNCHANGED <<cache, last>>

\* redis.get resolves with null: on to the live fetch.
L2Miss(r) ==
  /\ req[r].pc = "l2read"
  /\ ~RedisHas(redis, RedisKey(r), now)
  /\ AwaitAll(r, StartFetch(r))
  /\ UNCHANGED <<env, now, ticks, redis, search, issued>>

\* (no try around redis.get: the throw leaves the handler)
L2ReadError_Uncaught(r) ==
  /\ req[r].pc = "l2read"
  /\ req' = [req EXCEPT ![r].pc = "done", ![r].path = "failed",
                        ![r].l2ReadThrew = TRUE,
                        ![r].resp = ErrorResponse(500, "Internal Server Error")]
  /\ UNCHANGED <<env, now, ticks, cache, redis, search, issued, last>>

\* redis.get throws (lines 220-223): logged, and on to the live fetch.
L2ReadError(r) ==
  /\ req[r].pc = "l2read"
  /\ AwaitAll(r, [StartFetch(r) EXCEPT !.l2ReadThrew = TRUE])
  /\ UNCHANGED <<env, now, ticks, redis, search, issued>>

\* The adapter of call i gets the provider's reply and resolves (it never
\* rejects) before the timer fires: withTimeout (lines 50-54) clears the timer
\* and passes the value on.
Settle(r, i, reply) ==
  /\ req[r].pc = "fetching"
  /\ i \in 1..Len(req[r].calls)
  /\ req[r].calls[i].guard = "pending"
  /\ LET call == req[r].calls[i]
         outcome == AdapterOutcome(call.prov, reply, Page(r))
     IN AwaitAll(r, [req[r] EXCEPT
                       !.calls[i] = [call EXCEPT !.adapter = "settled", !.reply = reply,
                                                 !.guard = "resolved", !.value = outcome],
                       !.settleOrder = Append(@, i)])
  /\ UNCHANGED <<env, now, ticks, redis, search, issued>>

\* The same, for the replies the providers are taken to give.
AdapterSettles(r, i, reply) ==
  /\ i \in 1..Len(req[r].calls)
  /\ reply \in Replies(req[r].calls[i].prov)
  /\ Settle(r, i, reply)

\* The timer of call i fires first (line 49): the guarded call rejects with
\* "Request timed out", which the handler's .catch turns into the empty outcome.
TimerFires(r, i) ==
  /\ req[r].pc = "fetching"
  /\ i \in 1..Len(req[r].calls)
  /\ req[r].calls[i].guard = "pending"
  /\ now >= req[r].calls[i].deadline
  /\ AwaitAll(r, [req[r] EXCEPT !.calls[i] = OnGuardRejected(@),
                                !.settleOrder = Append(@, i)])
  /\ UNCHANGED <<env, now, ticks, redis, search, issued>>

\* The reply a provider gives when it answers after the deadline: its page
\* with rows.
LateReplyOf(prov) ==
  IF prov = AMAZON
  THEN Json(Array([i \in 1..2 |-> RawAmazonItem(i)]), NoPag)
  ELSE Json(Array([i \in 1..3 |-> RawBestBuyItem(i)]), Pag(1, 4))

\* (resolve taking effect on the promise that has been rejected)
LateReply_Taken(r, i) ==
  /\ i \in 1..Len(req[r].calls)
  /\ req[r].calls[i].guard = "timeout"
  /\ req[r].calls[i].adapter = "pending"
  /\ req' = [req EXCEPT
       ![r].calls[i].adapter = "settled", ![r].calls[i].late = TRUE,
       ![r].calls[i].reply = LateReplyOf(req[r].calls[i].prov),
       ![r].calls[i].value =
          AdapterOutcome(req[r].calls[i].prov, LateReplyOf(req[r].calls[i].prov), Page(r))]
  /\ UNCHANGED <<env, now, ticks, cache, redis, search, issued, last>>

\* The adapter of call i resolves after the timer has fired (lines 50-54):
\* clearTimeout on a timer that has fired and resolve on a promise that has
\* been rejected do nothing, so the value goes nowhere.
LateReply(r, i) ==
  /\ i \in 1..Len(req[r].calls)
  /\ req[r].calls[i].guard = "timeout"
  /\ req[r].calls[i].adapter = "pending"
  /\ req' = [req EXCEPT
       ![r].calls[i].adapter = "settled", ![r].calls[i].late = TRUE,
       ![r].calls[i].reply = LateReplyOf(req[r].calls[i].prov)]
  /\ UNCHANGED <<env, now, ticks, cache, redis, search, issued, last>>

\* redis.set resolves (line 265), then the answer (line 271).
L2WriteDone(r) ==
  /\ req[r].pc = "l2write"
  /\ redis' = MapSet(redis, RedisKey(r), RedisEntry(req[r].payload, now))
  /\ req' = [req EXCEPT ![r].pc = "done", ![r].path = "LIVE",
                        ![r].resp = LiveResponse(req[r].payload)]
  /\ cache' = cache
  /\ last' = Answered(r, LiveResponse(req[r].payload))
  /\ UNCHANGED <<env, now, ticks, search, issued>>

\* (the catch block takes the L1 entry back)
L2WriteError_RolledBack(r) ==
  /\ req[r].pc = "l2write"
  /\ req' = [req EXCEPT ![r].pc = "done", ![r].path = "LIVE",
                        ![r].l2WriteThrew = TRUE,
                        ![r].resp = OnRedisWriteError(req[r].payload)]
  /\ cache' = [k \in DOMAIN cache \ {CacheKey(r)} |-> cache[k]]
  /\ last' = last
  /\ UNCHANGED <<env, now, ticks, redis, search, issued>>

\* redis.set throws (lines 266-268): logged, then the same answer.
L2WriteError(r) ==
  /\ req[r].pc = "l2write"
  /\ req' = [req EXCEPT ![r].pc = "done", ![r].path = "LIVE",
                        ![r].l2WriteThrew = TRUE,
                        ![r].resp = OnRedisWriteError(req[r].payload)]
  /\ cache' = cache
  /\ last' = Answered(r, OnRedisWriteError(req[r].payload))
  /\ UNCHANGED <<env, now, ticks, redis, search, issued>>

\* Time passes. The store answers, and a timer that is due fires, before the
\* clock moves again.
Tick ==
  /\ ticks < MaxTicks
  /\ \A r \in Slots : req[r].pc \notin {"l2read", "l2write"}
  /\ \A r \in Slots : req[r].pc = "fetching" =>
        \A i \in 1..Len(req[r].calls) :
          req[r].calls[i].guard = "pending" => now < req[r].calls[i].deadline
  /\ now' = now + TickDelta(ticks + 1)
  /\ ticks' = ticks + 1
  /\ UNCHANGED <<env, cache, redis, req, search, issued, last>>

\* No request is being handled.
Quiet == \A r \in Slots : Free(r)

\* Callers that wait for the answer before they ask again.
Next ==
  \/ \E r \in Slots, q \in Queries, providerParam \in ProviderParams :
        Quiet /\ Request(r, q, providerParam)
  \/ \E r \in Slots : L2Hit(r)
  \/ \E r \in Slots : L2Miss(r)
  \/ \E r \in Slots : L2ReadError(r)
  \/ \E r \in Slots, i \in 1..2, reply \in AmazonReplies \cup BestBuyReplies :
        AdapterSettles(r, i, reply)
  \/ \E r \in Slots, i \in 1..2 : TimerFires(r, i)
  \/ \E r \in Slots, i \in 1..2 : LateReply(r, i)
  \/ \E r \in Slots : L2WriteDone(r)
  \/ \E r \in Slots : L2WriteError(r)
  \/ Tick

Spec == Init /\ [][Next]_vars

\* ------------------------------------------------- one request, to its end
\* One request, which comes in while the clock can still move, so that a timer
\* set for it can fire.
LiveNext ==
  \/ \E r \in Slots, q \in Queries, providerParam \in ProviderParams :
        issued = 0 /\ ticks < MaxTicks /\ Request(r, q, providerParam)
  \/ \E r \in Slots : L2Hit(r)
  \/ \E r \in Slots : L2Miss(r)
  \/ \E r \in Slots : L2ReadError(r)
  \/ \E r \in Slots, i \in 1..2, reply \in AmazonReplies \cup BestBuyReplies :
        AdapterSettles(r, i, reply)
  \/ \E r \in Slots, i \in 1..2 : TimerFires(r, i)
  \/ \E r \in Slots, i \in 1..2 : LateReply(r, i)
  \/ \E r \in Slots : L2WriteDone(r)
  \/ \E r \in Slots : L2WriteError(r)
  \/ Tick

\* Time passes, a timer that is due fires, and a call of redis.get or
\* redis.set returns or throws. Nothing is assumed of the providers.
LiveSpec ==
  /\ Init
  /\ [][LiveNext]_vars
  /\ WF_vars(Tick)
  /\ WF_vars(\E r \in Slots, i \in 1..2 : TimerFires(r, i))
  /\ WF_vars(\E r \in Slots : L2Hit(r) \/ L2Miss(r) \/ L2ReadError(r))
  /\ WF_vars(\E r \in Slots : L2WriteDone(r) \/ L2WriteError(r))

\* --------------------------------------------------- requests that overlap
\* Callers that do not wait for the answer: a request may come in while
\* another is at an await. They ask for "tv" under the default scope, on a
\* server with the Amazon credential.
ConcNext ==
  \/ \E r \in Slots : Request(r, search.q, Absent)
  \/ \E r \in Slots : L2Hit(r)
  \/ \E r \in Slots : L2Miss(r)
  \/ \E r \in Slots : L2ReadError(r)
  \/ \E r \in Slots, i \in 1..2, reply \in AmazonReplies \cup BestBuyReplies :
        AdapterSettles(r, i, reply)
  \/ \E r \in Slots, i \in 1..2 : TimerFires(r, i)
  \/ \E r \in Slots, i \in 1..2 : LateReply(r, i)
  \/ \E r \in Slots : L2WriteDone(r)
  \/ \E r \in Slots : L2WriteError(r)
  \/ Tick

ConcInit ==
  /\ env = [RAINFOREST_API_KEY |-> TRUE, BESTBUY_API_KEY |-> FALSE]
  /\ now = 0
  /\ ticks = 0
  /\ cache = EmptyMap
  /\ redis = EmptyMap
  /\ req = [r \in Slots |-> IdleRequest]
  /\ search = [q |-> Given(<<"t", "v">>), pageParam |-> Absent]
  /\ issued = 0
  /\ last = EmptyMap

ConcSpec == ConcInit /\ [][ConcNext]_vars

\* ------------------------------------------------ the adapters, reply by reply
\* A wider range of replies than the behaviours above draw from: prices of
\* every JSON type, page counts that are there, partly there or not there, and
\* replies that cannot be read.
PriceValues(n) ==
  { Num(n), Str(<<"1", "9", ".", "9", "9">>), Undefined, Null }

AmazonRow(priceRaw) ==
  [title |-> <<"A">>, priceRaw |-> priceRaw, link |-> <<"a", "/">>,
   image |-> Undefined, rating |-> Num(450), reviews |-> Undefined]

BestBuyRow(salePrice, regularPrice) ==
  [name |-> <<"B">>, salePrice |-> salePrice, regularPrice |-> regularPrice,
   url |-> <<"b", "/">>, image |-> Null,
   customerReviewAverage |-> Undefined, customerReviewCount |-> Num(700)]

\* json.search_results / json.products that is no array (and not null)
NotArray == [t |-> "other", arr |-> <<>>]

\* A body that is no JSON: res.json() throws
BadJson == [kind |-> "badjson", status |-> 200, rows |-> NoRows, pag |-> NoPag]

WidePags ==
  { NoPag, Pag(1, 2), Pag(2, 2),
    [has |-> TRUE, cur |-> Num(100), total |-> Undefined],
    [has |-> TRUE, cur |-> Undefined, total |-> Num(400)] }

Unreadable == { NetErr, Http(404), Http(503), BadJson }

WideAmazonReplies ==
  Unreadable
  \cup { Json(NotArray, pag) : pag \in {NoPag, Pag(1, 2)} }
  \cup { Json(rows, pag) :
           rows \in {NoRows, Array(<<>>)}
                     \cup { Array(<<AmazonRow(x)>>) :
                              x \in {Str(<<"$", "5", ".", "0", "0">>), Num(500),
                                      Undefined, Null} },
           pag \in WidePags }

WideBestBuyReplies ==
  Unreadable
  \cup { Json(NotArray, pag) : pag \in {NoPag, Pag(1, 2)} }
  \cup { Json(rows, pag) :
           rows \in {NoRows, Array(<<>>)}
                     \cup { Array(<<BestBuyRow(x, y)>>) :
                              x \in PriceValues(1999), y \in PriceValues(2450) },
           pag \in WidePags }

WideReplies(prov) == IF prov = AMAZON THEN WideAmazonReplies ELSE WideBestBuyReplies

\* One request for both providers on a server with both credentials, whose
\* adapters get any of these replies.
AdapterNext ==
  \/ \E r \in Slots : issued = 0 /\ Request(r, search.q, Given(ALL))
  \/ \E r \in Slots : L2Miss(r)
  \/ \E r \in Slots, i \in 1..2, reply \in WideAmazonReplies \cup WideBestBuyReplies :
        /\ i \in 1..Len(req[r].calls)
        /\ reply \in WideReplies(req[r].calls[i].prov)
        /\ Settle(r, i, reply)
  \/ \E r \in Slots : L2WriteDone(r)

AdapterInit ==
  /\ env = [RAINFOREST_API_KEY |-> TRUE, BESTBUY_API_KEY |-> TRUE]
  /\ now = 0
  /\ ticks = 0
  /\ cache = EmptyMap
  /\ redis = EmptyMap
  /\ req = [r \in Slots |-> IdleRequest]
  /\ search = [q |-> Given(<<"t", "v">>), pageParam |-> Absent]
  /\ issued = 0
  /\ last = EmptyMap

AdapterSpec == AdapterInit /\ [][AdapterNext]_vars

\* ------------------------------------------------------------ letter case
\* The search term "tv" as callers may spell it.
CaseQueries == { Given(<<"t", "v">>), Given(<<"T", "V">>), Given(<<"t", "V">>) }

\* Callers that ask for "tv" in any spelling, under the default scope.
CaseNext ==
  \/ \E r \in Slots, q \in CaseQueries : Quiet /\ Request(r, q, Absent)
  \/ \E r \in Slots : L2Hit(r)
  \/ \E r \in Slots : L2Miss(r)
  \/ \E r \in Slots : L2ReadError(r)
  \/ \E r \in Slots, i \in 1..2, reply \in AmazonReplies \cup BestBuyReplies :
        AdapterSettles(r, i, reply)
  \/ \E r \in Slots, i \in 1..2 : TimerFires(r, i)
  \/ \E r \in Slots, i \in 1..2 : LateReply(r, i)
  \/ \E r \in Slots : L2WriteDone(r)
  \/ \E r \in Slots : L2WriteError(r)
  \/ Tick

CaseInit ==
  /\ env = [RAINFOREST_API_KEY |-> TRUE, BESTBUY_API_KEY |-> FALSE]
  /\ now = 0
  /\ ticks = 0
  /\ cache = EmptyMap
  /\ redis = EmptyMap
  /\ req = [r \in Slots |-> IdleRequest]
  /\ search = [q |-> Given(<<"t", "v">>), pageParam |-> Absent]
  /\ issued = 0
  /\ last = EmptyMap

CaseSpec == CaseInit /\ [][CaseNext]_vars

\* ------------------------------------------------------- the page parameter
PageChars == {"-", "+", "0", "1", "3", "x", " "}

\* The strings over PageChars of length n
PageStrings(n) == [1..n -> PageChars]

\* What a caller may send as page: nothing, or a string of up to MaxPageLen
\* characters.
PageParams ==
  {Absent} \cup { Given(str) : str \in UNION { PageStrings(n) : n \in 0..MaxPageLen } }

PageInit ==
  /\ env = [RAINFOREST_API_KEY |-> TRUE, BESTBUY_API_KEY |-> TRUE]
  /\ now = 0
  /\ ticks = 0
  /\ cache = EmptyMap
  /\ redis = EmptyMap
  /\ req = [r \in Slots |-> IdleRequest]
  /\ search \in { [q |-> Given(<<"t", "v">>), pageParam |-> p] : p \in PageParams }
  /\ issued = 0
  /\ last = EmptyMap

\* A request for the page, up to the provider calls it starts.
PageNext ==
  \/ \E r \in Slots : issued = 0 /\ Request(r, search.q, Absent)
  \/ \E r \in Slots : L2Miss(r)

PageSpec == PageInit /\ [][PageNext]_vars

\* ------------------------------------------------------------ separators
\* Two searches whose text holds the separator of the keys.
KeySearches ==
  { [q |-> Given(<<"x", ":", ":", "1", ":", ":", "a", "l", "l">>),
     pageParam |-> Given(<<"2">>)],
    [q |-> Given(<<"x">>), pageParam |-> Given(<<"1">>)] }
KeyProviders ==
  { Given(AMAZON),
    Given(<<"a", "l", "l", ":", ":", "2", ":", ":", "a", "m", "a", "z", "o", "n">>) }

\* The caller turns to another search.
Ask(s) ==
  /\ Quiet
  /\ s # search
  /\ search' = s
  /\ UNCHANGED <<env, now, ticks, cache, redis, req, issued, last>>

\* Callers that ask for either search under either scope, one at a time.
KeyNext ==
  \/ \E s \in KeySearches : Ask(s)
  \/ \E r \in Slots, providerParam \in KeyProviders :
        Quiet /\ Request(r, search.q, providerParam)
  \/ \E r \in Slots : L2Hit(r)
  \/ \E r \in Slots : L2Miss(r)
  \/ \E r \in Slots : L2ReadError(r)
  \/ \E r \in Slots, i \in 1..2, reply \in AmazonReplies \cup BestBuyReplies :
        AdapterSettles(r, i, reply)
  \/ \E r \in Slots, i \in 1..2 : TimerFires(r, i)
  \/ \E r \in Slots, i \in 1..2 : LateReply(r, i)
  \/ \E r \in Slots : L2WriteDone(r)
  \/ \E r \in Slots : L2WriteError(r)
  \/ Tick

KeyInit ==
  /\ env = [RAINFOREST_API_KEY |-> TRUE, BESTBUY_API_KEY |-> FALSE]
  /\ now = 0
  /\ ticks = 0
  /\ cache = EmptyMap
  /\ redis = EmptyMap
  /\ req = [r \in Slots |-> IdleRequest]
  /\ search \in KeySearches
  /\ issued = 0
  /\ last = EmptyMap

KeySpec == KeyInit /\ [][KeyNext]_vars

\* ------------------------------------------------------------- lifetimes
\* How far the clock moves at its k-th step here: to just before the end of an
\* L1 lifetime, to just before the end of an L2 lifetime, to just before the
\* end of the L1 lifetime that started there, and then past the sum of both.
StaleDelta(k) ==
  CASE k = 1 -> CACHE_TTL_MS - 1
    [] k = 2 -> REDIS_TTL_SECONDS * 1000 - CACHE_TTL_MS
    [] k = 3 -> CACHE_TTL_MS - 1
    [] OTHER -> 3

\* The clock moves between two requests.
StaleTick ==
  /\ ticks < MaxTicks + 1
  /\ Quiet
  /\ now' = now + StaleDelta(ticks + 1)
  /\ ticks' = ticks + 1
  /\ UNCHANGED <<env, cache, redis, req, search, issued, last>>

\* Callers that ask for "tv" under provider=all, one at a time, of providers
\* that answer at once.
StaleNext ==
  \/ \E r \in Slots : Quiet /\ Request(r, search.q, Given(ALL))
  \/ \E r \in Slots : L2Hit(r)
  \/ \E r \in Slots : L2Miss(r)
  \/ \E r \in Slots : L2ReadError(r)
  \/ \E r \in Slots, i \in 1..2, reply \in AmazonReplies \cup BestBuyReplies :
        AdapterSettles(r, i, reply)
  \/ \E r \in Slots : L2WriteDone(r)
  \/ \E r \in Slots : L2WriteError(r)
  \/ StaleTick

StaleInit ==
  /\ env = [RAINFOREST_API_KEY |-> TRUE, BESTBUY_API_KEY |-> TRUE]
  /\ now = 0
  /\ ticks = 0
  /\ cache = EmptyMap
  /\ redis \in { EmptyMap, MapSet(EmptyMap, SeedKey, RedisEntry(SeedPayload, 0)) }
  /\ req = [r \in Slots |-> IdleRequest]
  /\ search = [q |-> Given(<<"t", "v">>), pageParam |-> Absent]
  /\ issued = 0
  /\ last = EmptyMap

StaleSpec == StaleInit /\ [][StaleNext]_vars

\* ------------------------------------------------------------ withTimeout
\* (no .catch on the wrapped promise: its rejection goes nowhere and the
\* timer stays)
OperationRejects_Dropped(r, i) ==
  /\ req[r].pc = "fetching"
  /\ i \in 1..Len(req[r].calls)
  /\ req[r].calls[i].guard = "pending"
  /\ req[r].calls[i].adapter = "pending"
  /\ req' = [req EXCEPT ![r].calls[i].adapter = "rejected"]
  /\ UNCHANGED <<env, now, ticks, cache, redis, search, issued, last>>

\* withTimeout around an operation that rejects before the timer fires (lines
\* 55-58): the timer is cleared and the promise rejects with the operation's
\* own error, which the handler's .catch (230-233, 239-242) turns into the
\* empty outcome. fetchAmazon and fetchBestBuy catch what they throw, so this
\* is a step of withTimeout as it stands, for any operation it is given.
OperationRejects(r, i) ==
  /\ req[r].pc = "fetching"
  /\ i \in 1..Len(req[r].calls)
  /\ req[r].calls[i].guard = "pending"
  /\ req[r].calls[i].adapter = "pending"
  /\ AwaitAll(r, [req[r] EXCEPT
                    !.calls[i] = [req[r].calls[i] EXCEPT
                                    !.adapter = "rejected", !.guard = "failed",
                                    !.value = EmptyOutcome],
                    !.settleOrder = Append(@, i)])
  /\ UNCHANGED <<env, now, ticks, redis, search, issued>>

\* The operation rejects after the timer has fired (lines 55-58): clearTimeout
\* on a timer that has fired and reject on a promise that has been rejected do
\* nothing.
LateReject(r, i) ==
  /\ i \in 1..Len(req[r].calls)
  /\ req[r].calls[i].guard = "timeout"
  /\ req[r].calls[i].adapter = "pending"
  /\ req' = [req EXCEPT ![r].calls[i].adapter = "rejected",
                        ![r].calls[i].late = TRUE]
  /\ UNCHANGED <<env, now, ticks, cache, redis, search, issued, last>>

\* Requests for "tv" under provider=all, one at a time, whose two guarded
\* operations may resolve, reject or stay pending.
TimeoutNext ==
  \/ \E r \in Slots : Quiet /\ Request(r, search.q, Given(ALL))
  \/ \E r \in Slots : L2Miss(r)
  \/ \E r \in Slots, i \in 1..2, reply \in AmazonReplies \cup BestBuyReplies :
        AdapterSettles(r, i, reply)
  \/ \E r \in Slots, i \in 1..2 : OperationRejects(r, i)
  \/ \E r \in Slots, i \in 1..2 : TimerFires(r, i)
  \/ \E r \in Slots, i \in 1..2 : LateReply(r, i)
  \/ \E r \in Slots, i \in 1..2 : LateReject(r, i)
  \/ \E r \in Slots : L2WriteDone(r)
  \/ \E r \in Slots : L2WriteError(r)
  \/ Tick

TimeoutInit ==
  /\ env = [RAINFOREST_API_KEY |-> TRUE, BESTBUY_API_KEY |-> TRUE]
  /\ now = 0
  /\ ticks = 0
  /\ cache = EmptyMap
  /\ redis = EmptyMap
  /\ req = [r \in Slots |-> IdleRequest]
  /\ search = [q |-> Given(<<"t", "v">>), pageParam |-> Absent]
  /\ issued = 0
  /\ last = EmptyMap

TimeoutSpec == TimeoutInit /\ [][TimeoutNext]_vars

\* ============================================================ properties
Min(a, b) == IF a < b THEN a ELSE b

\* res is seq cut to its first n elements
IsPrefixUpTo(res, seq, n) ==
  /\ Len(res) = Min(Len(seq), n)
  /\ \A i \in 1..Len(res) : res[i] = seq[i]

\* The request in slot r made no use of L1, of L2 or of a provider.
Untouched(r) ==
  /\ req[r].l1Lookups = 0 /\ req[r].l1Writes = 0
  /\ req[r].l2Reads = 0 /\ req[r].l2Writes = 0
  /\ req[r].calls = <<>>

\* A request came in in slot r in this step.
CameIn(r) == req'[r].id # req[r].id

\* The guarded call failed: the timer fired, the provider could not be reached,
\* answered with a non-success status or with a body that is no JSON.
CallFailed(call) ==
  \/ call.guard = "timeout"
  \/ call.guard = "resolved" /\ call.sent /\
       \/ call.reply.kind \in {"neterr", "badjson"}
       \/ call.reply.status < 200 \/ call.reply.status > 299

\* The results the call of provider prov handed to the merge of request r.
ResultsOf(r, prov) ==
  IF \E i \in 1..Len(req[r].calls) : req[r].calls[i].prov = prov
  THEN req[r].calls[CHOOSE i \in 1..Len(req[r].calls) : req[r].calls[i].prov = prov]
         .value.results
  ELSE <<>>

Payload(resp) == [results |-> resp.results, hasMore |-> resp.hasMore]

\* C1: a request whose q is absent or the empty string is answered 400
\* "Missing search term" in the step it comes in, having looked up nothing in
\* L1, read or written nothing in L2 and called no provider; the step leaves
\* the L1 table and the L2 store as they were.
C1_MissingTermRejected ==
  [][\A r \in Slots :
       (CameIn(r) /\ (~req'[r].q.has \/ req'[r].q.val = <<>>)) =>
         /\ req'[r].pc = "done"
         /\ req'[r].resp = ErrorResponse(400, "Missing search term")
         /\ req'[r].l1Lookups = 0 /\ req'[r].l1Writes = 0
         /\ req'[r].l2Reads = 0 /\ req'[r].l2Writes = 0
         /\ req'[r].calls = <<>>
         /\ cache' = cache
         /\ redis' = redis]_vars

\* C1 witness: an empty q answered 400 while L1 and L2 hold entries.
C1_Witness ==
  \E r \in Slots :
    /\ Done(r) /\ req[r].q = Given(<<>>)
    /\ req[r].resp.status = 400
    /\ DOMAIN cache # {} /\ DOMAIN redis # {}

AllSpaces(str) == \A i \in 1..Len(str) : str[i] = " "

\* C2 (as claimed): a request whose q is empty or consists of spaces only is
\* answered 400, and no provider is called for it.
C2_BlankQueryRejected ==
  \A r \in Slots :
    (req[r].pc # "idle" /\ req[r].q.has /\ AllSpaces(req[r].q.val)) =>
      /\ \A i \in 1..Len(req[r].calls) : ~req[r].calls[i].sent
      /\ Done(r) => req[r].resp.status = 400

\* C3: with neither credential configured, a request with a non-empty q is
\* answered 500 "Server is not configured with any provider API keys"; it
\* calls no provider and neither reads nor writes L1 or L2, which stay empty.
C3_NotConfiguredRejected ==
  (~env.RAINFOREST_API_KEY /\ ~env.BESTBUY_API_KEY) =>
    /\ cache = EmptyMap /\ redis = EmptyMap
    /\ \A r \in Slots :
         (req[r].pc # "idle" /\ req[r].q.has /\ req[r].q.val # <<>>) =>
           /\ Done(r)
           /\ req[r].resp = ErrorResponse(500,
                "Server is not configured with any provider API keys")
           /\ Untouched(r)

\* C3 witness: a request with q = "tv" answered 500 on a server without keys.
C3_Witness ==
  \E r \in Slots :
    /\ Done(r) /\ req[r].q = Given(<<"t", "v">>)
    /\ req[r].resp.status = 500
    /\ ~env.RAINFOREST_API_KEY /\ ~env.BESTBUY_API_KEY

\* C4: provider isolation. In an answered live fetch under provider=all, when
\* one of the two calls failed (timeout, network error, bad status, bad body)
\* the answer is a 200 whose results are the other call's results, up to the
\* cap.
C4_ProviderIsolation ==
  \A r \in Slots :
    (Done(r) /\ Provider(r) = ALL /\ Len(req[r].calls) = 2) =>
      /\ req[r].resp.status = 200
      /\ CallFailed(req[r].calls[1]) =>
           IsPrefixUpTo(req[r].resp.results, req[r].calls[2].value.results, CAP)
      /\ CallFailed(req[r].calls[2]) =>
           IsPrefixUpTo(req[r].resp.results, req[r].calls[1].value.results, CAP)

\* C4 witness: the Amazon call timed out and the three Best Buy rows are the
\* answer.
C4_Witness ==
  \E r \in Slots :
    /\ Done(r) /\ Provider(r) = ALL /\ Len(req[r].calls) = 2
    /\ req[r].calls[1].guard = "timeout"
    /\ req[r].calls[2].guard = "resolved" /\ req[r].calls[2].reply.kind = "json"
    /\ Len(req[r].resp.results) = 3
    /\ \A i \in 1..3 : req[r].resp.results[i].source = BESTBUY

\* C5: a request that has passed validation is answered 200 with a payload,
\* whatever the providers and the store did; no answer is "Search failed".
C5_FailuresAbsorbed ==
  \A r \in Slots :
    Done(r) =>
      /\ req[r].resp.error # "Search failed"
      /\ (req[r].q.has /\ req[r].q.val # <<>>
            /\ (env.RAINFOREST_API_KEY \/ env.BESTBUY_API_KEY)) =>
           /\ req[r].resp.status = 200
           /\ req[r].resp.error = ""
           /\ req[r].resp.cacheLayer # ""

\* C5 witness: the L2 read threw, a provider timed out, the L2 write threw,
\* and the answer is a 200.
C5_Witness ==
  \E r \in Slots :
    /\ Done(r) /\ req[r].resp.status = 200
    /\ req[r].l2ReadThrew /\ req[r].l2WriteThrew
    /\ \E i \in 1..Len(req[r].calls) : req[r].calls[i].guard = "timeout"

\* C6: idempotence. A request that comes in after the request that last wrote
\* L1 under its key was answered, less than 60 s after that write, is answered
\* from L1 with the results and hasMore of that answer.
C6_RepeatServedFromL1 ==
  \A r \in Slots :
    (Done(r) /\ req[r].repeatOf.status = 200) =>
      /\ req[r].resp.status = 200
      /\ req[r].resp.cached /\ req[r].resp.cacheLayer = "L1"
      /\ Payload(req[r].resp) = Payload(req[r].repeatOf)

\* C6 witness: the repeat of a live fetch with results, 56 s after its write.
C6_Witness ==
  \E r \in Slots :
    /\ Done(r) /\ req[r].repeatOf.cacheLayer = "LIVE"
    /\ req[r].resp.cacheLayer = "L1"
    /\ Len(req[r].resp.results) > 0
    /\ now - cache[CacheKey(r)].at = CACHE_TTL_MS - TIMEOUT_MS

\* C7: a request answered from L2 has written the L2 payload into L1 under its
\* key, expiring 60 s after the write; and the same request coming in right
\* after it is answered from L1 with that payload.
C7_L2HitBackfillsL1 ==
  \A r \in Slots :
    /\ (Done(r) /\ req[r].path = "L2") =>
         /\ req[r].l1Writes = 1
         /\ CacheKey(r) \in DOMAIN cache
         /\ cache[CacheKey(r)].by = req[r].id =>
              /\ cache[CacheKey(r)].data = Payload(req[r].resp)
              /\ cache[CacheKey(r)].expires = cache[CacheKey(r)].at + CACHE_TTL_MS
    /\ (Done(r) /\ req[r].repeatOf.cacheLayer = "REDIS") =>
         /\ req[r].resp.cacheLayer = "L1"
         /\ Payload(req[r].resp) = Payload(req[r].repeatOf)

\* C7 witness: an L1 answer that repeats an L2 answer given at the same instant.
C7_Witness ==
  \E r \in Slots :
    /\ Done(r) /\ req[r].repeatOf.cacheLayer = "REDIS"
    /\ req[r].resp.cacheLayer = "L1"
    /\ cache[CacheKey(r)].at = now

C9_Cap ==
  /\ \A k \in DOMAIN cache : Len(cache[k].data.results) <= 30
  /\ \A k \in DOMAIN redis : Len(redis[k].value.results) <= 30
  /\ \A r \in Slots : Len(req[r].resp.results) <= 30

\* C9 witness: 31 Amazon rows and 3 Best Buy rows answered, cached and stored
\* as 30 results.
C9_Witness ==
  \E r \in Slots :
    /\ Done(r) /\ req[r].path = "LIVE"
    /\ Len(ResultsOf(r, AMAZON)) + Len(ResultsOf(r, BESTBUY)) > 30
    /\ Len(req[r].resp.results) = 30
    /\ Len(cache[CacheKey(r)].data.results) = 30
    /\ RedisKey(r) \in DOMAIN redis /\ Len(redis[RedisKey(r)].value.results) = 30

\* C10: the results of a live fetch are the first 30 of the Amazon call's
\* results followed by the Best Buy call's results, whichever settled first.
C10_MergeOrder ==
  \A r \in Slots :
    (Done(r) /\ req[r].path = "LIVE") =>
      LET a == ResultsOf(r, AMAZON)
          b == ResultsOf(r, BESTBUY)
      IN /\ Len(req[r].resp.results) = Min(Len(a) + Len(b), 30)
         /\ \A i \in 1..Len(req[r].resp.results) :
              req[r].resp.results[i] = IF i <= Len(a) THEN a[i] ELSE b[i - Len(a)]

\* C10 witness: Best Buy settled first, and the two Amazon rows still come
\* before the three Best Buy rows.
C10_Witness ==
  \E r \in Slots :
    /\ Done(r) /\ req[r].path = "LIVE"
    /\ req[r].settleOrder = <<2, 1>>
    /\ Len(ResultsOf(r, AMAZON)) = 2 /\ Len(ResultsOf(r, BESTBUY)) = 3
    /\ req[r].resp.results[1].source = AMAZON
    /\ req[r].resp.results[5].source = BESTBUY

\* What the call reported as hasMore, worked out from the provider's reply:
\* false when the call timed out or the credential is missing.
ReportedHasMore(r, call) ==
  /\ call.guard = "resolved"
  /\ call.sent
  /\ AdapterOutcome(call.prov, call.reply, Page(r)).hasMore

\* C11: the hasMore of a live fetch is true exactly when the outcome of one of
\* its provider calls had hasMore true, also when none of that provider's
\* rows is among the 30 that are kept; a call that failed or timed out
\* counts as hasMore false.
C11_HasMoreIsAny ==
  \A r \in Slots :
    (Done(r) /\ req[r].path = "LIVE") =>
      /\ req[r].resp.hasMore <=>
           \E i \in 1..Len(req[r].calls) : ReportedHasMore(r, req[r].calls[i])
      /\ \A i \in 1..Len(req[r].calls) :
           CallFailed(req[r].calls[i]) => ~ReportedHasMore(r, req[r].calls[i])

\* C11 witness: 30 Amazon rows are the answer, Amazon reported its last page,
\* Best Buy reported more pages, and hasMore is true.
C11_Witness ==
  \E r \in Slots :
    /\ Done(r) /\ req[r].path = "LIVE" /\ Len(req[r].calls) = 2
    /\ Len(req[r].resp.results) = 30
    /\ \A j \in 1..30 : req[r].resp.results[j].source = AMAZON
    /\ ~req[r].calls[1].value.hasMore
    /\ Len(req[r].calls[2].value.results) > 0 /\ req[r].calls[2].value.hasMore
    /\ req[r].resp.hasMore

\* C12: a live fetch has written its payload to L1, empty or not, and has
\* called redis.set exactly when the payload has results; a write that went
\* through left an entry under the request's key (the payload itself, as long
\* as no later request has come in); the L2 store never holds an entry with
\* an empty results list.
C12_EmptyNeverInL2 ==
  /\ \A k \in DOMAIN redis : Len(redis[k].value.results) > 0
  /\ \A r \in Slots :
       (Done(r) /\ req[r].path = "LIVE") =>
         /\ req[r].l1Writes = 1
         /\ CacheKey(r) \in DOMAIN cache
         /\ cache[CacheKey(r)].by = req[r].id =>
              cache[CacheKey(r)].data = Payload(req[r].resp)
         /\ req[r].l2Writes = 1 <=> Len(req[r].resp.results) > 0
         /\ (req[r].l2Writes = 1 /\ ~req[r].l2WriteThrew) =>
              /\ RedisKey(r) \in DOMAIN redis
              /\ req[r].id = issued =>
                   redis[RedisKey(r)].value = Payload(req[r].resp)

\* C12 witness: a live fetch without results, held in L1 and not in L2.
C12_Witness ==
  \E r \in Slots :
    /\ Done(r) /\ req[r].path = "LIVE"
    /\ \E i \in 1..Len(req[r].calls) : req[r].calls[i].sent
    /\ req[r].resp.results = <<>>
    /\ cache[CacheKey(r)].by = req[r].id
    /\ cache[CacheKey(r)].data.results = <<>>
    /\ RedisKey(r) \notin DOMAIN redis

\* The providers the scope of request r makes active, in the order of the pushes.
ActiveProviders(r) ==
  (IF UseAmazon(Provider(r)) THEN <<AMAZON>> ELSE <<>>)
  \o (IF UseBestBuy(Provider(r)) THEN <<BESTBUY>> ELSE <<>>)

\* Request r has one call per active provider, sent when its key is there.
ActiveCalled(r) ==
  /\ Len(req[r].calls) = Len(ActiveProviders(r))
  /\ \A i \in 1..Len(req[r].calls) :
       /\ req[r].calls[i].prov = ActiveProviders(r)[i]
       /\ req[r].calls[i].sent <=> HasKey(env, req[r].calls[i].prov)

\* The payload the values of the calls of request r merge to.
MergedPayload(r) ==
  LET a == ResultsOf(r, AMAZON)
      b == ResultsOf(r, BESTBUY)
  IN [results |-> SubSeq(a \o b, 1, Min(Len(a) + Len(b), 30)),
      hasMore |-> \E i \in 1..Len(req[r].calls) : req[r].calls[i].value.hasMore]

\* C13: a request whose L2 read threw goes the way of an L2 miss: its active
\* providers are called, and once it is answered the merged payload is in L1
\* and the answer is a 200 tagged LIVE with that payload.
C13_L2ReadErrorIsMiss ==
  \A r \in Slots :
    req[r].l2ReadThrew =>
      /\ req[r].pc \in {"fetching", "l2write", "done"}
      /\ ActiveCalled(r)
      /\ Done(r) =>
           /\ req[r].resp = JsonResponse(MergedPayload(r), FALSE, "LIVE")
           /\ req[r].l1Writes = 1
           /\ CacheKey(r) \in DOMAIN cache
           /\ cache[CacheKey(r)].data = MergedPayload(r)
           /\ req[r].l2Writes = 1 <=> Len(req[r].resp.results) > 0

\* C13 witness: the read threw while the store held the entry of the key; the
\* provider was called and the answer is LIVE.
C13_Witness ==
  \E r \in Slots :
    /\ Done(r) /\ req[r].l2ReadThrew
    /\ RedisKey(r) \in DOMAIN redis
    /\ redis[RedisKey(r)] = RedisEntry(SeedPayload, 0)
    /\ now < redis[RedisKey(r)].expiresAt
    /\ \E i \in 1..Len(req[r].calls) : req[r].calls[i].sent
    /\ req[r].resp.status = 200 /\ req[r].resp.cacheLayer = "LIVE"

\* C14: a request whose L2 write threw is answered 200, tagged LIVE, with the
\* payload it has just merged, which has results; the L1 entry it wrote is
\* still there, with that payload and its 60 s lifetime.
C14_L2WriteErrorKeepsL1 ==
  \A r \in Slots :
    req[r].l2WriteThrew =>
      /\ Done(r)
      /\ req[r].resp = JsonResponse(MergedPayload(r), FALSE, "LIVE")
      /\ Len(req[r].resp.results) > 0
      /\ CacheKey(r) \in DOMAIN cache
      /\ cache[CacheKey(r)].by = req[r].id
      /\ cache[CacheKey(r)].data = MergedPayload(r)
      /\ cache[CacheKey(r)].expires = cache[CacheKey(r)].at + CACHE_TTL_MS

\* C14 witness: the write threw on a store that holds nothing under the key,
\* and the answer has results.
C14_Witness ==
  \E r \in Slots :
    /\ Done(r) /\ req[r].l2WriteThrew /\ ~req[r].l2ReadThrew
    /\ RedisKey(r) \notin DOMAIN redis
    /\ req[r].resp.status = 200 /\ Len(req[r].resp.results) > 0
    /\ L1Fresh(cache, CacheKey(r), now)

\* A request with a search term came in in slot r on a configured server.
ValidCameIn(r) ==
  /\ CameIn(r)
  /\ req'[r].q.has /\ req'[r].q.val # <<>>
  /\ env.RAINFOREST_API_KEY \/ env.BESTBUY_API_KEY

\* C15: a request is answered from L1 exactly when there is an entry under
\* its key and the time is less than the entry's write time plus 60 000 ms;
\* otherwise it goes on to the L2 read. The step that answers from L1 leaves
\* the table, and so the expiry of the entry, as it was; every entry expires
\* 60 000 ms after it was written.
C15_L1Ttl ==
  [][/\ \A k \in DOMAIN cache : cache[k].expires = cache[k].at + CACHE_TTL_MS
     /\ \A r \in Slots :
          ValidCameIn(r) =>
            LET key == makeCacheKey(req'[r].q.val, PageOf(req'[r].pageParam),
                                    ProviderOf(req'[r].providerParam))
                served == key \in DOMAIN cache /\ now < cache[key].at + 60000
            IN /\ cache' = cache
               /\ served => /\ req'[r].pc = "done"
                             /\ req'[r].resp = JsonResponse(cache[key].data, TRUE, "L1")
               /\ ~served => /\ req'[r].pc = "l2read"
                              /\ req'[r].resp = NoResponse]_vars

\* C15 witness: a request that came in at the instant the entry under its key
\* expired, and went on to the L2 read.
C15_Witness ==
  \E r \in Slots :
    /\ req[r].pc = "l2read"
    /\ CacheKey(r) \in DOMAIN cache
    /\ now = cache[CacheKey(r)].at + CACHE_TTL_MS

\* Nothing in the payload comes from provider prov.
NoneFrom(payload, prov) ==
  \A j \in 1..Len(payload.results) : payload.results[j].source # prov

\* C16: a call whose timer fired has the empty outcome as its value, also
\* after the provider's reply has come in; the answer of its request, the L1
\* entry and the L2 entry that request wrote hold nothing of that provider.
C16_TimeoutDiscardsValue ==
  \A r \in Slots : \A i \in 1..Len(req[r].calls) :
    req[r].calls[i].guard = "timeout" =>
      /\ req[r].calls[i].value = EmptyOutcome
      /\ NoneFrom(req[r].payload, req[r].calls[i].prov)
      /\ Done(r) =>
           /\ req[r].resp = JsonResponse(MergedPayload(r), FALSE, "LIVE")
           /\ NoneFrom(Payload(req[r].resp), req[r].calls[i].prov)
           /\ NoneFrom(cache[CacheKey(r)].data, req[r].calls[i].prov)
           /\ (req[r].l2Writes = 1 /\ ~req[r].l2WriteThrew) =>
                NoneFrom(redis[RedisKey(r)].value, req[r].calls[i].prov)

\* C16 witness: Amazon's page came in after the timer, before Best Buy
\* settled; the answer, L1 and L2 hold the three Best Buy rows only.
C16_Witness ==
  \E r \in Slots :
    /\ Done(r) /\ Len(req[r].calls) = 2
    /\ req[r].calls[1].guard = "timeout" /\ req[r].calls[1].late
    /\ Len(Rows(req[r].calls[1].reply)) = 2
    /\ req[r].calls[2].guard = "resolved"
    /\ Len(req[r].resp.results) = 3
    /\ Len(cache[CacheKey(r)].data.results) = 3
    /\ RedisKey(r) \in DOMAIN redis /\ Len(redis[RedisKey(r)].value.results) = 3

\* C17: while a call of a live fetch is pending, all the calls of the request
\* have been started, at one instant, and the request has merged nothing,
\* written nothing and answered nothing; once it has merged, none is pending.
C17_AwaitedJointly ==
  \A r \in Slots :
    /\ req[r].pc \in {"fetching", "l2write"} \/ (Done(r) /\ req[r].path = "LIVE") =>
         /\ ActiveCalled(r)
         /\ \A i, j \in 1..Len(req[r].calls) :
              req[r].calls[i].deadline = req[r].calls[j].deadline
    /\ (\E i \in 1..Len(req[r].calls) : req[r].calls[i].guard = "pending") <=>
         req[r].pc = "fetching"
    /\ req[r].pc = "fetching" =>
         /\ req[r].resp = NoResponse
         /\ req[r].payload = EmptyOutcome
         /\ req[r].l1Writes = 0 /\ req[r].l2Writes = 0
         /\ CacheKey(r) \in DOMAIN cache => cache[CacheKey(r)].by # req[r].id

\* C17 witness: Amazon has delivered its rows, Best Buy is pending, and the
\* request has not answered.
C17_Witness ==
  \E r \in Slots :
    /\ req[r].pc = "fetching" /\ Len(req[r].calls) = 2
    /\ req[r].calls[1].guard = "resolved"
    /\ Len(req[r].calls[1].value.results) > 0
    /\ req[r].calls[2].guard = "pending"
    /\ req[r].resp = NoResponse

Active(r) == req[r].pc \in {"l2read", "fetching", "l2write"}

\* C18: a request that is being handled is answered in the end, whatever the
\* providers do; it has an answer exactly when it is done, and the answer it
\* has given does not change.
C18_AnsweredOnce ==
  /\ \A r \in Slots : Active(r) ~> Done(r)
  /\ [](\A r \in Slots : Done(r) <=> req[r].resp # NoResponse)
  /\ [][\A r \in Slots :
          (Done(r) /\ req'[r].id = req[r].id) => req'[r].resp = req[r].resp]_vars

\* C18 witness: answered 200 although none of the two providers has replied.
C18_Witness ==
  \E r \in Slots :
    /\ Done(r) /\ Len(req[r].calls) = 2
    /\ \A i \in 1..2 : /\ req[r].calls[i].guard = "timeout"
                         /\ req[r].calls[i].adapter = "pending"
    /\ req[r].resp.status = 200

\* The tag of the first provider that has its credential.
FirstConfigured(e) == IF e.RAINFOREST_API_KEY THEN AMAZON ELSE BESTBUY

\* C19 (as claimed): a request without the provider parameter has the first
\* configured provider as its scope, and its live fetch calls that provider.
C19_DefaultFirstConfigured ==
  \A r \in Slots :
    (req[r].pc \in {"fetching", "l2write", "done"} /\ req[r].path \in {"", "LIVE"}
       /\ ~req[r].providerParam.has) =>
      /\ Provider(r) = FirstConfigured(env)
      /\ \E i \in 1..Len(req[r].calls) :
           req[r].calls[i].prov = FirstConfigured(env) /\ req[r].calls[i].sent

\* C20 (as claimed): the page of a request is a positive integer: the parsed
\* value of the page parameter when that is a positive integer, else 1; it is
\* the page of the cache key.
C20_PagePositive ==
  \A r \in Slots :
    req[r].pc # "idle" =>
      LET n == parseInt(req[r].pageParam.val)
          parsed == req[r].pageParam.has /\ ~n.nan /\ n.val > 0
      IN /\ Page(r) > 0
         /\ Page(r) = IF parsed THEN n.val ELSE 1
         /\ CacheKey(r) = <<"t", "v", ":", ":">> \o NumToStr(Page(r))
                             \o <<":", ":">> \o AMAZON

\* C21: requests for "tv" in any letter case, page 1, default scope, have
\* the L1 key "tv::1::amazon" and the L2 key "dealscope:search:v1:" followed
\* by it; these are the only keys the tiers hold; and a request answered from
\* L1 or from L2 is answered with the payload stored under that key, which a
\* request of whatever spelling wrote.
C21_KeysIgnoreCase ==
  LET key == <<"t", "v", ":", ":", "1", ":", ":", "a", "m", "a", "z", "o", "n">>
      rkey == <<"d", "e", "a", "l", "s", "c", "o", "p", "e", ":",
                "s", "e", "a", "r", "c", "h", ":", "v", "1", ":">> \o key
  IN /\ DOMAIN cache \subseteq {key}
     /\ DOMAIN redis \subseteq {rkey}
     /\ \A r \in Slots :
          req[r].pc # "idle" =>
            /\ CacheKey(r) = key
            /\ RedisKey(r) = rkey
            /\ (Done(r) /\ req[r].repeatOf.status = 200) =>
                 /\ req[r].path = "L1"
                 /\ Payload(req[r].resp) = Payload(req[r].repeatOf)
            /\ (Done(r) /\ req[r].path = "L1") =>
                 /\ key \in DOMAIN last
                 /\ Payload(req[r].resp) = Payload(last[key].resp)
            /\ (Done(r) /\ req[r].path = "L2") =>
                 Payload(req[r].resp) = redis[rkey].value

\* C21 witness: "TV" answered from the L1 entry that a request for "tv" wrote.
C21_Witness ==
  \E r \in Slots :
    /\ Done(r) /\ req[r].path = "L1" /\ req[r].q = Given(<<"T", "V">>)
    /\ CacheKey(r) \in DOMAIN last
    /\ last[CacheKey(r)].q = <<"t", "v">>
    /\ last[CacheKey(r)].resp.cacheLayer = "LIVE"
    /\ Len(req[r].resp.results) > 0

\* The credential of provider prov is configured.
Configured(prov) ==
  (prov = AMAZON /\ env.RAINFOREST_API_KEY) \/ (prov = BESTBUY /\ env.BESTBUY_API_KEY)

ZeroReply == Json(Array(<<>>), Pag(1, 0))

\* C27: a call that failed (timeout, network error, bad status, bad body)
\* hands the merge the very value a call answered with zero rows and no
\* further page hands it; and what a live fetch answers and stores is worked
\* out from the values of its calls and the instant of the merge alone: the
\* answer is a 200 without error, tagged LIVE, with the merged payload, which
\* is also the L1 entry and, when written, the L2 entry.
C27_FailureLooksEmpty ==
  \A r \in Slots :
    /\ \A i \in 1..Len(req[r].calls) :
         LET call == req[r].calls[i]
         IN (CallFailed(call) \/ (call.guard = "resolved" /\ call.reply = ZeroReply)) =>
              call.value = AdapterOutcome(call.prov, ZeroReply, Page(r))
    /\ (Done(r) /\ req[r].path = "LIVE") =>
         /\ req[r].resp = [status |-> 200, error |-> "",
                            results |-> MergedPayload(r).results,
                            hasMore |-> MergedPayload(r).hasMore,
                            cached |-> FALSE, cacheLayer |-> "LIVE"]
         /\ cache[CacheKey(r)].data = MergedPayload(r)
         /\ cache[CacheKey(r)].expires = cache[CacheKey(r)].at + CACHE_TTL_MS
         /\ (req[r].l2Writes = 1 /\ ~req[r].l2WriteThrew) =>
              /\ redis[RedisKey(r)].value = MergedPayload(r)
              /\ redis[RedisKey(r)].expiresAt = cache[CacheKey(r)].at + 600000
         /\ (req[r].l2Writes = 0 /\ ~req[r].l2ReadThrew) =>
              ~RedisHas(redis, RedisKey(r), cache[CacheKey(r)].at)

\* C27 witness: Best Buy could not be reached, and the answer and the L1
\* entry are those of Amazon's two rows merged with Best Buy's zero rows.
C27_Witness ==
  \E r \in Slots :
    /\ Done(r) /\ req[r].path = "LIVE" /\ Len(req[r].calls) = 2
    /\ req[r].calls[2].guard = "resolved" /\ req[r].calls[2].reply.kind = "neterr"
    /\ Len(req[r].calls[1].value.results) = 2
    /\ LET zero == [results |-> req[r].calls[1].value.results
                                   \o BestBuyOutcome(ZeroReply, Page(r)).results,
                     hasMore |-> req[r].calls[1].value.hasMore
                                   \/ BestBuyOutcome(ZeroReply, Page(r)).hasMore]
       IN /\ Payload(req[r].resp) = zero
          /\ cache[CacheKey(r)].data = zero

\* The providers the provider parameter of request r asks for.
AskedFor(r) ==
  IF ~req[r].providerParam.has THEN <<AMAZON>>
  ELSE IF req[r].providerParam = Given(BESTBUY) THEN <<BESTBUY>>
  ELSE IF req[r].providerParam = Given(ALL) THEN <<AMAZON, BESTBUY>>
  ELSE <<>>

\* C29: a request has no call before its live fetch, and from then on one
\* call for each provider its scope asks for, in the order Amazon, Best Buy,
\* and no other; a call has sent its one HTTP request exactly when the
\* provider's credential is configured.
C29_OneCallPerActiveProvider ==
  \A r \in Slots :
    /\ Len(req[r].calls) \in {0, Len(AskedFor(r))}
    /\ (req[r].pc \in {"fetching", "l2write"} \/ req[r].path = "LIVE") =>
         Len(req[r].calls) = Len(AskedFor(r))
    /\ (req[r].pc \in {"idle", "l2read"} \/ req[r].path \in {"400", "500", "L1", "L2"}) =>
         req[r].calls = <<>>
    /\ \A i \in 1..Len(req[r].calls) :
         /\ req[r].calls[i].prov = AskedFor(r)[i]
         /\ req[r].calls[i].sent <=> Configured(req[r].calls[i].prov)
         /\ req[r].calls[i].reply.kind # "none" => req[r].calls[i].sent

\* C29 witness: provider=bestbuy on a server with both credentials: one call,
\* to Best Buy, answered.
C29_Witness ==
  \E r \in Slots :
    /\ Done(r) /\ req[r].providerParam = Given(BESTBUY)
    /\ env.RAINFOREST_API_KEY /\ env.BESTBUY_API_KEY
    /\ Len(req[r].calls) = 1
    /\ req[r].calls[1].prov = BESTBUY /\ req[r].calls[1].sent
    /\ req[r].calls[1].reply.kind = "json"

\* C30: once a request whose L1 lookup found an expired entry is done, the
\* entry under its key is the one this request wrote, which expires 60 s
\* after that write; and in the step in which a request that has looked up L1
\* gets done, the entry under its key has not expired.
C30_ExpiredEntryReplaced ==
  /\ [](\A r \in Slots :
          (Done(r) /\ req[r].expiredSeen) =>
            /\ CacheKey(r) \in DOMAIN cache
            /\ cache[CacheKey(r)].by = req[r].id
            /\ cache[CacheKey(r)].expires = cache[CacheKey(r)].at + CACHE_TTL_MS)
  /\ [][\A r \in Slots :
          (req'[r].pc = "done" /\ (req[r].pc # "done" \/ CameIn(r))
             /\ req'[r].l1Lookups = 1) =>
            LET key == makeCacheKey(req'[r].q.val, PageOf(req'[r].pageParam),
                                    ProviderOf(req'[r].providerParam))
            IN key \in DOMAIN cache' /\ cache'[key].expires > now']_vars

\* C30 witness: the lookup found an expired entry, the providers had nothing,
\* and the entry under the key is the fresh, empty one.
C30_Witness ==
  \E r \in Slots :
    /\ Done(r) /\ req[r].expiredSeen /\ req[r].path = "LIVE"
    /\ req[r].resp.results = <<>>
    /\ cache[CacheKey(r)].by = req[r].id
    /\ cache[CacheKey(r)].expires > now

\* The provider's reply could not be used: it did not come, it came with a
\* status outside 200..299, its body is no JSON, or its rows are no array.
Unusable(reply) ==
  \/ reply.kind \in {"neterr", "badjson"}
  \/ reply.status < 200 \/ reply.status > 299
  \/ reply.rows.t = "other"

\* C23: an adapter that got an unusable reply has resolved to exactly
\* {results: [], hasMore: false}; no call is ever rejected by its adapter and
\* no request ends in the handler's catch block.
C23_AdapterNeverRejects ==
  \A r \in Slots :
    /\ req[r].path # "failed"
    /\ \A i \in 1..Len(req[r].calls) :
         LET call == req[r].calls[i]
         IN /\ call.guard \in {"pending", "resolved", "timeout"}
            /\ (call.reply.kind # "none" /\ call.guard = "resolved") =>
                 /\ call.adapter = "settled"
                 /\ Unusable(call.reply) =>
                      call.value = [results |-> <<>>, hasMore |-> FALSE]

\* C23 witness: Amazon's search_results is no array although the page counts
\* say there is more, Best Buy's body is no JSON, and the answer is an empty
\* 200.
C23_Witness ==
  \E r \in Slots :
    /\ Done(r) /\ Len(req[r].calls) = 2
    /\ req[r].calls[1].reply = Json(NotArray, Pag(1, 2))
    /\ req[r].calls[2].reply = BadJson
    /\ req[r].resp.status = 200
    /\ req[r].resp.results = <<>> /\ ~req[r].resp.hasMore

\* C24: for a usable reply, the hasMore of the Amazon adapter is current page
\* < total pages when the reply has both numbers and "the page has rows"
\* otherwise; that of the Best Buy adapter is current page < total pages when
\* the reply has the total, the current page being the one asked for when the
\* reply does not name it, and "the page has rows" otherwise.
C24_HasMoreFromPagination ==
  \A r \in Slots : \A i \in 1..Len(req[r].calls) :
    LET call == req[r].calls[i]
        pag == call.reply.pag
        rows == Len(call.value.results)
    IN (call.guard = "resolved" /\ call.reply.kind = "json" /\ ~Unusable(call.reply)) =>
         /\ rows = (IF call.reply.rows.t = "array" THEN Len(call.reply.rows.arr) ELSE 0)
         /\ (call.prov = AMAZON /\ pag.cur.t = "number" /\ pag.total.t = "number") =>
              (call.value.hasMore <=> pag.cur.n < pag.total.n)
         /\ (call.prov = AMAZON /\ ~(pag.cur.t = "number" /\ pag.total.t = "number")) =>
              (call.value.hasMore <=> rows > 0)
         /\ (call.prov = BESTBUY /\ pag.total.t = "number" /\ pag.cur.t = "number") =>
              (call.value.hasMore <=> pag.cur.n < pag.total.n)
         /\ (call.prov = BESTBUY /\ pag.total.t = "number" /\ pag.cur.t # "number") =>
              (call.value.hasMore <=> 100 * Page(r) < pag.total.n)
         /\ (call.prov = BESTBUY /\ pag.total.t # "number") =>
              (call.value.hasMore <=> rows > 0)

\* C24 witness: Amazon sent a row without page counts (hasMore), Best Buy a
\* row on the last of its pages (no hasMore).
C24_Witness ==
  \E r \in Slots :
    /\ Len(req[r].calls) = 2
    /\ req[r].calls[1].guard = "resolved" /\ req[r].calls[2].guard = "resolved"
    /\ req[r].calls[1].reply.pag = NoPag
    /\ Len(req[r].calls[1].value.results) = 1 /\ req[r].calls[1].value.hasMore
    /\ req[r].calls[2].reply.pag = Pag(2, 2)
    /\ Len(req[r].calls[2].value.results) = 1 /\ ~req[r].calls[2].value.hasMore

\* x.toFixed(2) after "$", for the two prices of the Best Buy rows
ExpectedPrice(x) ==
  IF x.n = 1999 THEN Str(<<"$", "1", "9", ".", "9", "9">>)
  ELSE Str(<<"$", "2", "4", ".", "5", "0">>)

\* C25: the price of a Best Buy result is that of salePrice when salePrice is
\* a number, else that of regularPrice when regularPrice is a number, else
\* null.
C25_SalePriceFirst ==
  \A r \in Slots : \A i \in 1..Len(req[r].calls) :
    LET call == req[r].calls[i]
    IN (call.prov = BESTBUY /\ call.guard = "resolved" /\ call.reply.kind = "json"
          /\ ~Unusable(call.reply) /\ call.reply.rows.t = "array") =>
         /\ Len(call.value.results) = Len(call.reply.rows.arr)
         /\ \A j \in 1..Len(call.value.results) :
              LET row == call.reply.rows.arr[j]
              IN call.value.results[j].price =
                   IF row.salePrice.t = "number" THEN ExpectedPrice(row.salePrice)
                   ELSE IF row.regularPrice.t = "number" THEN ExpectedPrice(row.regularPrice)
                   ELSE Null

\* C25 witness: a row with both prices, answered with the sale price.
C25_Witness ==
  \E r \in Slots :
    /\ Done(r) /\ Len(req[r].calls) = 2
    /\ req[r].calls[2].reply.rows = Array(<<BestBuyRow(Num(1999), Num(2450))>>)
    /\ Len(req[r].resp.results) > 0
    /\ req[r].resp.results[Len(req[r].resp.results)].source = BESTBUY
    /\ req[r].resp.results[Len(req[r].resp.results)].price
         = Str(<<"$", "1", "9", ".", "9", "9">>)

\* The result has a known source and a price that is null or a string with
\* the currency sign in front.
WellFormed(result) ==
  /\ result.source \in {AMAZON, BESTBUY}
  /\ \/ result.price = Null
     \/ result.price.t = "string" /\ Len(result.price.s) > 1 /\ result.price.s[1] = "$"

\* C26 (as claimed): every result an adapter produced, every result in L1 and
\* in L2 and every result of an answer is well formed.
C26_PricesValidated ==
  /\ \A r \in Slots :
       /\ \A i \in 1..Len(req[r].calls) : \A j \in 1..Len(req[r].calls[i].value.results) :
            WellFormed(req[r].calls[i].value.results[j])
       /\ \A j \in 1..Len(req[r].resp.results) : WellFormed(req[r].resp.results[j])
  /\ \A k \in DOMAIN cache : \A j \in 1..Len(cache[k].data.results) :
       WellFormed(cache[k].data.results[j])
  /\ \A k \in DOMAIN redis : \A j \in 1..Len(redis[k].value.results) :
       WellFormed(redis[k].value.results[j])

\* Request r is past the L2 read, on the way of the live fetch.
OnLivePath(r) ==
  req[r].pc \in {"fetching", "l2write"} \/ (Done(r) /\ req[r].path = "LIVE")

\* What request r puts into L1: the merged payload, or the L2 entry it got.
Written(rec) == IF rec.path = "L2" THEN Payload(rec.resp) ELSE rec.payload

\* C28: requests for one key that overlap are not coalesced: each request on
\* the way of the live fetch has its own provider call, and is answered LIVE
\* with the payload merged from it; a write of L1 puts the writer's entry
\* under the key whatever was there, and no other step changes the table, so
\* that the entry is that of the request that wrote last.
C28_NoCoalescing ==
  /\ [](\A r \in Slots :
          /\ OnLivePath(r) => Len(req[r].calls) = 1 /\ req[r].calls[1].sent
          /\ (Done(r) /\ req[r].path = "LIVE") =>
               /\ req[r].resp = JsonResponse(MergedPayload(r), FALSE, "LIVE")
               /\ req[r].l1Writes = 1
          /\ (req[r].l1Writes = 1 /\ CacheKey(r) \in DOMAIN cache
                 /\ cache[CacheKey(r)].by = req[r].id) =>
               cache[CacheKey(r)].data = Written(req[r]))
  /\ [][/\ \A r \in Slots :
            (req[r].l1Writes = 0 /\ req'[r].l1Writes = 1) =>
              /\ DOMAIN cache' = DOMAIN cache \cup {CacheKey(r)}
              /\ cache'[CacheKey(r)].by = req[r].id
              /\ cache'[CacheKey(r)].data = Written(req'[r])
              /\ cache'[CacheKey(r)].expires = now + 60000
        /\ (\A r \in Slots : ~(req[r].l1Writes = 0 /\ req'[r].l1Writes = 1)) =>
             cache' = cache]_vars

\* C28 witness: two requests were fetching at once; the second was answered
\* first, with rows; the first was answered later, without; the entry in L1 is
\* that of the first.
C28_Witness ==
  /\ Done(1) /\ Done(2)
  /\ req[1].id = 1 /\ req[2].id = 2
  /\ req[1].path = "LIVE" /\ req[2].path = "LIVE"
  /\ req[1].calls[1].sent /\ req[2].calls[1].sent
  /\ Len(req[2].resp.results) = 2 /\ req[1].resp.results = <<>>
  /\ cache[CacheKey(1)].by = 1
  /\ cache[CacheKey(1)].data = Payload(req[1].resp)

\* C32: the keys are injective on the normalized request, so an answer from
\* L1 repeats a request with the same lower-cased term, the same page and the
\* same lower-cased provider as the request that is answered.
C32_KeysInjective ==
  \A r \in Slots :
    (Done(r) /\ req[r].path = "L1" /\ CacheKey(r) \in DOMAIN last
       /\ CacheKey(r) \in DOMAIN cache
       /\ last[CacheKey(r)].by = cache[CacheKey(r)].by) =>
      /\ toLowerCase(last[CacheKey(r)].q) = toLowerCase(req[r].q.val)
      /\ last[CacheKey(r)].page = Page(r)
      /\ last[CacheKey(r)].provider = Provider(r)

\* The scope of request r names no provider.
UnknownScope(r) == Provider(r) \notin {AMAZON, BESTBUY, ALL}

NoResults == [results |-> <<>>, hasMore |-> FALSE]

C34_HitsFrame ==
  [][\A r \in Slots :
       /\ (CameIn(r) /\ req'[r].path = "L1") =>
            /\ cache' = cache /\ redis' = redis
            /\ req'[r].l2Reads = 0 /\ req'[r].l2Writes = 0
            /\ req'[r].l1Writes = 0 /\ req'[r].calls = <<>>
            /\ \A p \in Slots \ {r} : req'[p] = req[p]
       /\ (req[r].pc = "l2read" /\ req'[r].path = "L2") =>
            /\ redis' = redis
            /\ req'[r].calls = <<>> /\ req'[r].l2Writes = 0
            /\ req'[r].l2Reads = 1 /\ req'[r].l1Writes = 1
            /\ DOMAIN cache' = DOMAIN cache \cup {CacheKey(r)}
            /\ \A k \in DOMAIN cache \ {CacheKey(r)} : cache'[k] = cache[k]
            /\ cache'[CacheKey(r)].data = redis[RedisKey(r)].value
            /\ cache'[CacheKey(r)].expires = now + CACHE_TTL_MS
            /\ \A p \in Slots \ {r} : req'[p] = req[p]
            /\ now' = now /\ env' = env
    ]_vars

\* A request was answered from L2 after the clock had moved, and the entry
\* in L2 still has the expiry it was written with.
C34_Witness ==
  \E r \in Slots :
    /\ Done(r) /\ req[r].path = "L2" /\ now > 0
    /\ redis[RedisKey(r)].expiresAt < now + REDIS_TTL_SECONDS * 1000
    /\ cache[CacheKey(r)].by = req[r].id
    /\ req[r].id = 2

\* The key of L1 of the request in rec
KeyOf(rec) ==
  makeCacheKey(rec.q.val, PageOf(rec.pageParam), ProviderOf(rec.providerParam))

C36_TierCoherence ==
  Quiet =>
    \A k \in DOMAIN cache :
      (L1Fresh(cache, k, now) /\ RedisHas(redis, RedisPrefix \o k, now)) =>
        cache[k].data = redis[RedisPrefix \o k].value

\* C37: a request whose q is absent or empty on a server without credentials
\* is answered 400 "Missing search term", not the 500 of the configuration
\* check; a request answered by either check has looked up nothing in L1 and
\* read nothing from L2, and a request that has touched a cache has a search
\* term and runs on a server with a credential.
C37_ValidationOrder ==
  \A r \in Slots :
    /\ (/\ req[r].pc # "idle"
        /\ ~req[r].q.has \/ req[r].q.val = <<>>
        /\ ~env.RAINFOREST_API_KEY /\ ~env.BESTBUY_API_KEY) =>
         /\ Done(r)
         /\ req[r].resp = ErrorResponse(400, "Missing search term")
    /\ (Done(r) /\ req[r].resp.status \in {400, 500}) => Untouched(r)
    /\ (req[r].l1Lookups > 0 \/ req[r].l2Reads > 0
          \/ req[r].l1Writes > 0 \/ req[r].l2Writes > 0) =>
         /\ req[r].q.has /\ req[r].q.val # <<>>
         /\ env.RAINFOREST_API_KEY \/ env.BESTBUY_API_KEY

\* A request without q has been answered 400 on a server without credentials.
C37_Witness ==
  \E r \in Slots :
    /\ Done(r) /\ req[r].q = Absent
    /\ ~env.RAINFOREST_API_KEY /\ ~env.BESTBUY_API_KEY
    /\ req[r].resp = ErrorResponse(400, "Missing search term")
    /\ Untouched(r)

\* Call i of request r is there before and after the step.
SameCall(r, i) ==
  /\ req'[r].id = req[r].id
  /\ i \in 1..Len(req[r].calls)
  /\ i \in 1..Len(req'[r].calls)

\* C38: the promise of withTimeout settles once, with what happens first. It
\* is pending exactly while the operation is pending and the timer has not
\* fired. When the operation resolves first the promise resolves with the
\* operation's value, when it rejects first the promise rejects with the
\* operation's error, and from then on nothing changes the promise, the
\* deadline included. When the timer fires first, at the deadline or after,
\* the promise rejects with the timeout, and the operation's later resolve or
\* reject changes neither the promise nor the value the handler got.
C38_SettlesOnce ==
  /\ [](\A r \in Slots : \A i \in 1..Len(req[r].calls) :
         LET call == req[r].calls[i]
         IN /\ call.guard \in {"pending", "resolved", "failed", "timeout"}
            /\ call.guard = "pending" => call.adapter = "pending" /\ ~call.late
            /\ (call.guard = "resolved" /\ call.sent) =>
                 /\ call.adapter = "settled" /\ ~call.late
                 /\ call.value = AdapterOutcome(call.prov, call.reply, Page(r))
            /\ call.guard = "failed" => call.adapter = "rejected" /\ ~call.late
            /\ call.guard = "timeout" =>
                 /\ now >= call.deadline
                 /\ call.adapter # "pending" <=> call.late
                 /\ call.value = EmptyOutcome)
  /\ [][\A r \in Slots : \A i \in 1..2 :
         SameCall(r, i) =>
           /\ req[r].calls[i].guard # "pending" =>
                /\ req'[r].calls[i].guard = req[r].calls[i].guard
                /\ req'[r].calls[i].value = req[r].calls[i].value
           /\ (req[r].calls[i].guard = "pending"
                 /\ req'[r].calls[i].guard = "timeout") =>
                /\ req'[r].calls[i].adapter = "pending"
                /\ now >= req[r].calls[i].deadline
      ]_vars

\* One operation of a request rejected before the deadline and the other was
\* still pending when its timer fired and rejected later; the clock has
\* passed the deadline of both.
C38_Witness ==
  \E r \in Slots :
    /\ Len(req[r].calls) = 2
    /\ req[r].calls[1].guard = "failed" /\ now >= req[r].calls[1].deadline
    /\ req[r].calls[2].guard = "timeout" /\ req[r].calls[2].late
    /\ req[r].calls[2].adapter = "rejected"
    /\ Done(r)

====
